---- MODULE Spec2Model ----
(***************************************************************************)
(* Logflare MCP proxy: the per-connection session lifecycle of             *)
(* src/src/server.ts (the session table, the idle timers, the three HTTP   *)
(* routes) and the tool handlers that call the Logflare backend with the   *)
(* credentials captured by each connection's closure.                      *)
(*                                                                         *)
(* Time is counted in minutes.  A timer armed by setTimeout carries the    *)
(* minutes that remain until it is due; a due timer fires before the next  *)
(* minute passes (the event loop runs due timers first).                   *)
(***************************************************************************)
EXTENDS Integers, Sequences, FiniteSets, TLC

VARIABLES
    activeSessions, \* the Map: sessionId -> [server, transport, timeout]
    timers,         \* armed timers: handle -> [sid, remaining]
    st,             \* per connection: position of the GET /sse handler
    closed,         \* per connection: the response's "close" event has fired
    closure,        \* per connection: credentials captured by the tool closures
    idleFor,        \* per connection: minutes since creation / last accepted message
    out,            \* the last HTTP response or console line the process wrote
    sseOut,         \* per connection: last event written on its SSE stream
    calls,          \* tool invocations: slot -> [pc, sid, conn, tool, req]
    crashed,        \* an exception escaped a handler
    expired,        \* session ids whose timer callback has run
    inv,            \* one tool invocation followed through its handler
    calc            \* one application of a utility function: [fn, arg, res]

\* the session table and what the routes and timers do to it
sessionVars == <<activeSessions, timers, st, closed, closure, idleFor,
                 out, sseOut, calls, crashed, expired>>

\* what one handler or one utility function computes
evalVars == <<inv, calc>>

vars == <<activeSessions, timers, st, closed, closure, idleFor,
          out, sseOut, calls, crashed, expired, inv, calc>>

-----------------------------------------------------------------------------
(* Bounds of the model *)

MaxConns == 2

MaxCalls == 2

\* connections followed minute by minute in SpecMinute
MaxTimedConns == 1

(* Program constants *)

\* SESSION_TIMEOUT_MS = 30 * 60 * 1000, in minutes
SESSION_TIMEOUT_MIN == 30

Conns == 1..MaxConns

\* one spare handle above one per connection
Handles == 1..(MaxConns + 1)

Slots == 1..MaxCalls

TimedConns == {c \in Conns : c <= MaxTimedConns}

\* the ghost clock idleFor stops one minute past the timeout
IdleCap == SESSION_TIMEOUT_MIN + 1

-----------------------------------------------------------------------------
(* Values of headers and query parameters: undefined, a string, or an array *)

Undefined == [kind |-> "undefined", val |-> ""]

Str(s) == [kind |-> "string", val |-> s]

Arr(s) == [kind |-> "array", val |-> s]

\* JavaScript truthiness: undefined and "" are falsy, an array is truthy
Truthy(v) == v.kind = "array" \/ (v.kind = "string" /\ v.val # "")

TypeofString(v) == v.kind = "string"

\* what each client owns: its api key, its source token
KeyPool == <<"key-1", "key-2", "key-3", "key-4">>

TokenPool == <<"src-1", "src-2", "src-3", "src-4">>

UuidPool == <<"uuid-1", "uuid-2", "uuid-3", "uuid-4">>

ClientApiKey(c) == KeyPool[c]

ClientSourceToken(c) == TokenPool[c]

\* every transport reporting one fixed session id
SessionIdFixed(c) == UuidPool[1]

\* transport.sessionId: the UUID the transport of connection c draws
SessionIdOf(c) == UuidPool[c]

\* one server instance created at module level and used by every request
NewMcpServerShared(c) == 1

\* new McpServer(...): the instance constructed inside the handler of request c
NewMcpServer(c) == c

\* new SSEServerTransport("/messages", res): the transport of request c's response
NewSSEServerTransport(c) == c

\* an id no transport ever drew
UnknownId == "uuid-0"

NoToken == "none"

NoClosure == [apiKey |-> "", sourceToken |-> ""]

HeaderValues(s) == {Undefined, Str(""), Arr(s), Str(s)}

SessionIdParams == {Undefined, Str(""), Str(UnknownId)} \cup {Str(SessionIdOf(c)) : c \in Conns}

-----------------------------------------------------------------------------
(* Helpers translated from the handlers *)

\* a check that only looks for an absent header
HeaderRejectedUndefinedOnly(v) == v.kind = "undefined"

\* if (!apiKey || typeof apiKey !== "string")
HeaderRejected(v) == ~Truthy(v) \/ ~TypeofString(v)

\* a check that only looks for an absent parameter
ParamMissingUndefinedOnly(p) == p.kind = "undefined"

\* if (!sessionId)
ParamMissing(p) == ~Truthy(p)

\* const session = activeSessions.get(sessionId); if (!session)
SessionFound(p) == p.val \in DOMAIN activeSessions

\* new Map(): no key
EmptyMap == [x \in {} |-> x]

\* clearTimeout(handle): a timer that is not armed is left alone
ClearTimeout(tm, h) == [g \in (DOMAIN tm) \ {h} |-> tm[g]]

\* activeSessions.delete(sid)
MapDelete(m, sid) == [s \in (DOMAIN m) \ {sid} |-> m[s]]

\* handles in use: armed, or held by a table entry other than `except`
HandlesInUse(tm, except) ==
    DOMAIN tm \cup {activeSessions[s].timeout : s \in (DOMAIN activeSessions) \ {except}}

\* setTimeout returns a new Timeout object: the least handle nothing refers to
FreshTimer(tm, except) ==
    CHOOSE h \in Handles :
        /\ h \notin HandlesInUse(tm, except)
        /\ \A g \in Handles : g < h => g \in HandlesInUse(tm, except)

CanArm(tm, except) == \E h \in Handles : h \notin HandlesInUse(tm, except)

\* setTimeout(() => activeSessions.delete(sid), SESSION_TIMEOUT_MS)
SetTimeout(tm, h, sid) == (h :> [sid |-> sid, remaining |-> SESSION_TIMEOUT_MIN]) @@ tm

\* a registration that refuses an id the table already has
MapSetIfAbsent(m, sid, entry) == IF sid \in DOMAIN m THEN m ELSE (sid :> entry) @@ m

\* activeSessions.set(sid, entry): Map.prototype.set adds the key or
\* replaces its value
MapSet(m, sid, entry) == (sid :> entry) @@ m

\* the transport, the timer with handle h and the table entry that GET /sse
\* creates for request c, the transport reporting sid; nothing here fails
CreateSession(sessions, tm, c, sid, h) ==
    [sessions |-> MapSet(sessions, sid,
                         [server    |-> NewMcpServer(c),
                          transport |-> NewSSEServerTransport(c),
                          timeout   |-> h]),
     timers   |-> SetTimeout(tm, h, sid),
     failed   |-> FALSE]

\* a close handler without the `if (session)` guard: session.timeout of undefined throws
OnCloseCleanupUnguarded(sid) ==
    IF sid \in DOMAIN activeSessions
    THEN [sessions |-> MapDelete(activeSessions, sid),
          timers   |-> ClearTimeout(timers, activeSessions[sid].timeout),
          found    |-> TRUE,
          threw    |-> FALSE]
    ELSE [sessions |-> activeSessions, timers |-> timers, found |-> FALSE, threw |-> TRUE]

\* a close handler that deletes the entry and leaves its timer armed
OnCloseCleanupNoClear(sid) ==
    IF sid \in DOMAIN activeSessions
    THEN [sessions |-> MapDelete(activeSessions, sid),
          timers   |-> timers,
          found    |-> TRUE,
          threw    |-> FALSE]
    ELSE [sessions |-> activeSessions, timers |-> timers, found |-> FALSE, threw |-> FALSE]

\* res.on("close"): const session = get(id); if (session) { clearTimeout; delete; log }
OnCloseCleanup(sid) ==
    IF sid \in DOMAIN activeSessions
    THEN [sessions |-> MapDelete(activeSessions, sid),
          timers   |-> ClearTimeout(timers, activeSessions[sid].timeout),
          found    |-> TRUE,
          threw    |-> FALSE]
    ELSE [sessions |-> activeSessions, timers |-> timers, found |-> FALSE, threw |-> FALSE]

\* a catch block that reports the failure and keeps the entry and its timer
OnConnectErrorNoCleanup(sid) ==
    [sessions |-> activeSessions, timers |-> timers, found |-> FALSE, threw |-> FALSE]

\* a catch block that deletes the entry and leaves its timer armed
OnConnectErrorNoClear(sid) ==
    IF sid \in DOMAIN activeSessions
    THEN [sessions |-> MapDelete(activeSessions, sid),
          timers   |-> timers,
          found    |-> TRUE,
          threw    |-> FALSE]
    ELSE [sessions |-> activeSessions, timers |-> timers, found |-> FALSE, threw |-> FALSE]

\* catch of server.connect: const session = get(id); if (session) { clearTimeout; delete }
OnConnectErrorCleanup(sid) ==
    IF sid \in DOMAIN activeSessions
    THEN [sessions |-> MapDelete(activeSessions, sid),
          timers   |-> ClearTimeout(timers, activeSessions[sid].timeout),
          found    |-> TRUE,
          threw    |-> FALSE]
    ELSE [sessions |-> activeSessions, timers |-> timers, found |-> FALSE, threw |-> FALSE]

\* a catch block of the forwarding that removes the session
OnMessageErrorCleanup(sessions, sid) == MapDelete(sessions, sid)

\* catch of handlePostMessage: res.status(500).send(...), the table as it is
OnMessageError(sessions, sid) == sessions

\* a timer callback that only logs
OnTimeoutNoDelete(sid) == activeSessions

\* the timer callback: activeSessions.delete(transport.sessionId)
OnTimeout(sid) == MapDelete(activeSessions, sid)

\* a reset that clears the timer of every session
ClearedAllOnMessage(sid) == EmptyMap

\* clearTimeout(session.timeout), the first half of the reset on an accepted message
ClearedOnMessage(sid) == ClearTimeout(timers, activeSessions[sid].timeout)

\* a reset that clears the old timer and arms no new one
TimersAfterMessageNotRearmed(sid, h) == ClearedOnMessage(sid)

\* session.timeout = setTimeout(...): the armed timers after the reset
TimersAfterMessage(sid, h) == SetTimeout(ClearedOnMessage(sid), h, sid)

\* the connection whose transport drew this session id
ConnOf(sid) == CHOOSE c \in Conns : SessionIdOf(c) = sid

\* a lookup that hands back the transport of the first live session
ForwardTargetFirst(sid) ==
    activeSessions[CHOOSE s \in DOMAIN activeSessions :
                       \A r \in DOMAIN activeSessions : ConnOf(s) <= ConnOf(r)].transport

\* session.transport: the transport handlePostMessage is called on
ForwardTarget(sid) == activeSessions[sid].transport

-----------------------------------------------------------------------------
(* Outputs *)

NoOut == [route |-> "none", status |-> 0, sessionId |-> "", conn |-> 0, fwd |-> 0, text |-> ""]

HttpOut(route, status, sid, c, fwd) ==
    [route |-> route, status |-> status, sessionId |-> sid, conn |-> c, fwd |-> fwd, text |-> ""]

ConsoleOut(text, sid, c) ==
    [route |-> "console", status |-> 0, sessionId |-> sid, conn |-> c, fwd |-> 0, text |-> text]

-----------------------------------------------------------------------------
(* Tool invocations *)

ToolNames == {"query_logs", "list_sources", "get_source_schema"}

BackendAnswers == {"ok", "status", "network"}

NoRequest == [endpoint |-> "", auth |-> "", source |-> ""]

FreeCall == [pc |-> "free", sid |-> "", conn |-> 0, tool |-> "", req |-> NoRequest]

HasFreeSlot == \E i \in Slots : calls[i].pc = "free"

FreeSlot == CHOOSE i \in Slots : calls[i].pc = "free" /\ \A j \in Slots : j < i => calls[j].pc # "free"

\* a removal that aborts the backend calls of the session
CallsAbortedOnRemoval(cs, sid) ==
    [i \in DOMAIN cs |-> IF cs[i].sid = sid THEN FreeCall ELSE cs[i]]

\* the tool invocations after the close handler or the timer callback has
\* run for sid: neither touches a handler or its fetch
CallsAfterRemoval(cs, sid) == cs

\* credentials kept in one module-level variable, overwritten by each new connection
ToolCredsShared(c) ==
    closure[CHOOSE d \in Conns : st[d] # "idle" /\ \A e \in Conns : st[e] # "idle" => e <= d]

\* the apiKey and sourceToken a tool registered on connection c closes over
ToolCreds(c) == closure[c]

\* the fetch each tool issues: Authorization: Bearer apiKey, and the source token
\* as the `source` query parameter (query_logs) or in the path (get_source_schema)
BackendRequest(tool, cr) ==
    IF tool = "list_sources"
    THEN [endpoint |-> "/api/sources", auth |-> cr.apiKey, source |-> NoToken]
    ELSE IF tool = "get_source_schema"
    THEN [endpoint |-> "/api/sources/:token/schema", auth |-> cr.apiKey, source |-> cr.sourceToken]
    ELSE [endpoint |-> "/api/query", auth |-> cr.apiKey, source |-> cr.sourceToken]

\* !response.ok and the catch both return isError: true
ToolPayload(answer) == IF answer = "ok" THEN "result" ELSE "error"

-----------------------------------------------------------------------------
(* Strings: sequences of one-character strings *)

UpperCaseLetters ==
    <<"A", "B", "C", "D", "E", "F", "G", "H", "I", "J", "K", "L", "M",
      "N", "O", "P", "Q", "R", "S", "T", "U", "V", "W", "X", "Y", "Z">>

LowerCaseLetters ==
    <<"a", "b", "c", "d", "e", "f", "g", "h", "i", "j", "k", "l", "m",
      "n", "o", "p", "q", "r", "s", "t", "u", "v", "w", "x", "y", "z">>

DecimalDigits == <<"0", "1", "2", "3", "4", "5", "6", "7", "8", "9">>

IndexIn(table, ch) == CHOOSE i \in 1..Len(table) : table[i] = ch

IsUpper(ch) == \E i \in 1..Len(UpperCaseLetters) : UpperCaseLetters[i] = ch

IsLower(ch) == \E i \in 1..Len(LowerCaseLetters) : LowerCaseLetters[i] = ch

IsLetter(ch) == IsUpper(ch) \/ IsLower(ch)

\* \d
IsDigit(ch) == \E i \in 1..Len(DecimalDigits) : DecimalDigits[i] = ch

DigitValue(ch) == IndexIn(DecimalDigits, ch) - 1

\* \s, and the white space trim() strips
IsSpace(ch) == ch = " " \/ ch = "\n"

\* String.prototype.toLowerCase
ToLowerCase(s) ==
    [i \in 1..Len(s) |->
        IF IsUpper(s[i]) THEN LowerCaseLetters[IndexIn(UpperCaseLetters, s[i])] ELSE s[i]]

ToUpperCase(s) ==
    [i \in 1..Len(s) |->
        IF IsLower(s[i]) THEN UpperCaseLetters[IndexIn(LowerCaseLetters, s[i])] ELSE s[i]]

\* the index just past the run of characters satisfying Class that starts at i
RunEnd(s, i, Class(_)) ==
    CHOOSE j \in i..(Len(s) + 1) :
        /\ \A k \in i..(j - 1) : Class(s[k])
        /\ j = Len(s) + 1 \/ ~Class(s[j])

DigitsEnd(s, i) == RunEnd(s, i, IsDigit)

SpacesEnd(s, i) == RunEnd(s, i, IsSpace)

LettersEnd(s, i) == RunEnd(s, i, IsLetter)

\* the index of the last character of s that is no white space, 0 if none
LastNonSpace(s) ==
    IF \A j \in 1..Len(s) : IsSpace(s[j]) THEN 0
    ELSE CHOOSE j \in 1..Len(s) : ~IsSpace(s[j]) /\ \A k \in (j + 1)..Len(s) : IsSpace(s[k])

\* String.prototype.trim
Trim(s) == SubSeq(s, SpacesEnd(s, 1), LastNonSpace(s))

\* the literal w occurs in s at index i
StartsWithAt(s, i, w) ==
    /\ i + Len(w) - 1 <= Len(s)
    /\ SubSeq(s, i, i + Len(w) - 1) = w

\* a numeral without its leading zeros, as Number prints it
StripZeros(d) ==
    IF \A i \in 1..Len(d) : d[i] = "0" THEN <<"0">>
    ELSE SubSeq(d, CHOOSE i \in 1..Len(d) : d[i] # "0" /\ \A j \in 1..(i - 1) : d[j] = "0",
                Len(d))

\* a > b for numerals without leading zeros
NumeralGreater(a, b) ==
    \/ Len(a) > Len(b)
    \/ /\ Len(a) = Len(b)
       /\ \E i \in 1..Len(a) :
              /\ DigitValue(a[i]) > DigitValue(b[i])
              /\ \A k \in 1..(i - 1) : a[k] = b[k]

RECURSIVE NumeralValue(_)
\* the integer a numeral of at most nine digits denotes
NumeralValue(d) ==
    IF d = <<>> THEN 0
    ELSE 10 * NumeralValue(SubSeq(d, 1, Len(d) - 1)) + DigitValue(d[Len(d)])

-----------------------------------------------------------------------------
(* parseTimeToTimestamp: src/src/utils.ts and the copy in get_logs_by_time_range *)

\* the alternatives of (second|minute|hour|day|week|month|year), in order
UnitWords ==
    << <<"s", "e", "c", "o", "n", "d">>,
       <<"m", "i", "n", "u", "t", "e">>,
       <<"h", "o", "u", "r">>,
       <<"d", "a", "y">>,
       <<"w", "e", "e", "k">>,
       <<"m", "o", "n", "t", "h">>,
       <<"y", "e", "a", "r">> >>

\* intervalMap, by alternative
IntervalMap == <<"SECOND", "MINUTE", "HOUR", "DAY", "WEEK", "MONTH", "YEAR">>

WordNow == <<"n", "o", "w">>

WordCurrent == <<"c", "u", "r", "r", "e", "n", "t">>

WordAgo == <<"a", "g", "o">>

WordLast == <<"l", "a", "s", "t">>

WordYesterday == <<"y", "e", "s", "t", "e", "r", "d", "a", "y">>

WordToday == <<"t", "o", "d", "a", "y">>

\* what a time expression evaluates to: the BigQuery expression, or the throw
TimeExpr(kind, amount, unit, via, date, seconds) ==
    [kind |-> kind, amount |-> amount, unit |-> unit, via |-> via,
     date |-> date, seconds |-> seconds]

CurrentTimestamp == TimeExpr("CURRENT_TIMESTAMP", <<>>, "", "", <<>>, <<>>)

\* TIMESTAMP_SUB(CURRENT_TIMESTAMP(), INTERVAL amount unit)
TimestampSub(amount, unit) == TimeExpr("TIMESTAMP_SUB", amount, unit, "", <<>>, <<>>)

\* TIMESTAMP('...') of the year, month and day new Date(timeStr) read
TimestampOfDate(date) == TimeExpr("TIMESTAMP", <<>>, "", "date", date, <<>>)

\* TIMESTAMP('...') of new Date(unixSeconds * 1000)
TimestampOfUnix(seconds) == TimeExpr("TIMESTAMP", <<>>, "", "unix", <<>>, seconds)

\* throw new Error("Invalid time format: ...")
InvalidTimeFormat == TimeExpr("throw", <<>>, "", "Invalid time format", <<>>, <<>>)

\* toISOString() of an Invalid Date throws RangeError
InvalidTimeValue == TimeExpr("throw", <<>>, "", "RangeError", <<>>, <<>>)

NoMatch == [found |-> FALSE, amount |-> <<>>, unit |-> 0]

\* the alternatives that match at i and the index just past each
UnitsAt(s, i) == {u \in 1..Len(UnitWords) : StartsWithAt(s, i, UnitWords[u])}

\* s?\s*ago from index i, with and without the optional s
AgoTailAt(s, i) ==
    \/ /\ i <= Len(s) /\ s[i] = "s"
       /\ StartsWithAt(s, SpacesEnd(s, i + 1), WordAgo)
    \/ StartsWithAt(s, SpacesEnd(s, i), WordAgo)

\* a match with the first of the alternatives us, if there is one
MatchOf(amount, us) ==
    IF us = {} THEN NoMatch
    ELSE [found |-> TRUE, amount |-> amount, unit |-> CHOOSE u \in us : \A v \in us : u <= v]

\* the unit and the rest of the ago form, from index k
AgoUnitsAt(s, k) == {u \in UnitsAt(s, k) : AgoTailAt(s, k + Len(UnitWords[u]))}

\* the ago form with its digits in s[i..j-1]
AgoMatchFrom(s, i, j) == MatchOf(SubSeq(s, i, j - 1), AgoUnitsAt(s, SpacesEnd(s, j)))

\* /(\d+)\s*(second|minute|hour|day|week|month|year)s?\s*ago/ tried at index i
AgoMatchAt(s, i) == IF ~IsDigit(s[i]) THEN NoMatch ELSE AgoMatchFrom(s, i, DigitsEnd(s, i))

\* the last form with its digits in s[k..e-1], k > j the index past the
\* white space that follows the word
LastMatchDigits(s, j, k, e) ==
    IF k = j \/ e = k THEN NoMatch
    ELSE MatchOf(SubSeq(s, k, e - 1), UnitsAt(s, SpacesEnd(s, e)))

LastMatchFrom(s, j, k) == LastMatchDigits(s, j, k, DigitsEnd(s, k))

\* /last\s+(\d+)\s*(second|minute|hour|day|week|month|year)s?/ tried at index i
LastMatchAt(s, i) ==
    IF ~StartsWithAt(s, i, WordLast) THEN NoMatch
    ELSE LastMatchFrom(s, i + Len(WordLast), SpacesEnd(s, i + Len(WordLast)))

\* the first of the tries that found a match
FirstFound(tries) ==
    IF \A i \in DOMAIN tries : ~tries[i].found THEN NoMatch
    ELSE tries[CHOOSE i \in DOMAIN tries :
                   tries[i].found /\ \A j \in 1..(i - 1) : ~tries[j].found]

\* String.prototype.match without the g flag: the leftmost match
FirstMatch(s, MatchAt(_, _)) == FirstFound([i \in 1..Len(s) |-> MatchAt(s, i)])

AgoMatch(s) == FirstMatch(s, AgoMatchAt)

LastMatch(s) == FirstMatch(s, LastMatchAt)

\* parseInt of the captured digits, as the template prints it
ParseInt(d) == StripZeros(d)

(* new Date(timeStr) for a string that is no ISO-8601 literal: the         *)
(* fallback parser of the Node runtime the image is built on (V8).  Words  *)
(* that are none of its keywords are skipped before the first number,      *)
(* unless a number follows without a separator, and are illegal after one; *)
(* every number is a date component, at most three of them.                *)
FirstNine(d) == SubSeq(d, 1, IF Len(d) > 9 THEN 9 ELSE Len(d))

RECURSIVE LegacyDateComponents(_, _, _), LegacyNumber(_, _, _, _), LegacyWord(_, _, _, _)
LegacyDateComponents(s, i, comps) ==
    IF i > Len(s) THEN [ok |-> TRUE, comps |-> comps]
    ELSE IF IsSpace(s[i]) THEN LegacyDateComponents(s, SpacesEnd(s, i), comps)
    ELSE IF IsDigit(s[i]) THEN LegacyNumber(s, i, DigitsEnd(s, i), comps)
    ELSE LegacyWord(s, i, LettersEnd(s, i), comps)

\* the number in s[i..j-1]; the tokenizer keeps nine significant digits
LegacyNumber(s, i, j, comps) ==
    IF Len(comps) >= 3 THEN [ok |-> FALSE, comps |-> comps]
    ELSE LegacyDateComponents(s, j,
             Append(comps, NumeralValue(FirstNine(StripZeros(SubSeq(s, i, j - 1))))))

\* the word in s[i..j-1]
LegacyWord(s, i, j, comps) ==
    IF j = i \/ comps # <<>> \/ (j <= Len(s) /\ IsDigit(s[j]))
    THEN [ok |-> FALSE, comps |-> comps]
    ELSE LegacyDateComponents(s, j, comps)

IsDay(n) == 1 <= n /\ n <= 31

IsMonth(n) == 1 <= n /\ n <= 12

\* two-digit years: 0..49 are 2000.., 50..99 are 1950..
LegacyYear(y) == IF y <= 49 THEN y + 2000 ELSE IF y <= 99 THEN y + 1900 ELSE y

\* the largest time value is 13 September 275760
WithinTimeRange(y, m, d) ==
    \/ y < 275760
    \/ y = 275760 /\ (m < 9 \/ (m = 9 /\ d <= 13))

NoDate == [valid |-> FALSE, stamp |-> <<>>]

\* the date of year y, month m and day d, if there is one
DateOf(y, m, d) ==
    IF IsMonth(m) /\ IsDay(d) /\ WithinTimeRange(y, m, d)
    THEN [valid |-> TRUE, stamp |-> <<y, m, d>>]
    ELSE NoDate

\* three components: a first one that is no day is the year
ComposeDate(c) ==
    IF ~IsDay(c[1]) THEN DateOf(LegacyYear(c[1]), c[2], c[3])
    ELSE DateOf(LegacyYear(c[3]), c[1], c[2])

\* day and month default to 1
PadComponents(r) ==
    IF ~r.ok \/ r.comps = <<>> THEN NoDate
    ELSE ComposeDate(r.comps \o [i \in 1..(3 - Len(r.comps)) |-> 1])

LegacyDate(s) == PadComponents(LegacyDateComponents(s, 1, <<>>))

\* 2024-01-15T10:30:00Z
IsoDateTime ==
    <<"2", "0", "2", "4", "-", "0", "1", "-", "1", "5", "T",
      "1", "0", ":", "3", "0", ":", "0", "0", "Z">>

\* 2024-01-15
IsoDate == <<"2", "0", "2", "4", "-", "0", "1", "-", "1", "5">>

IsoLiterals == {IsoDateTime, IsoDate}

\* new Date(timeStr) and !isNaN(date.getTime())
NewDate(s) ==
    IF s \in IsoLiterals THEN [valid |-> TRUE, stamp |-> <<2024, 1, 15>>]
    ELSE LegacyDate(s)

\* the numeral in s[i..j-1], <<>> if it is empty
NumeralBetween(s, i, j) == IF j = i THEN <<>> ELSE StripZeros(SubSeq(s, i, j - 1))

NumeralFrom(s, i) == NumeralBetween(s, i, DigitsEnd(s, i))

\* parseFloat(timeStr): white space, then the longest numeral; NaN is <<>>
ParseFloat(s) == NumeralFrom(s, SpacesEnd(s, 1))

\* 946684800, the Unix seconds of 1 January 2000
UnixEpoch2000 == <<"9", "4", "6", "6", "8", "4", "8", "0", "0">>

\* 8640000000000, the Unix seconds of the largest time value
UnixSecondsMax == <<"8", "6", "4", "0", "0", "0", "0", "0", "0", "0", "0", "0", "0">>

\* a threshold test that lets 946684800 itself through
UnixAcceptedInclusive(x) == x # <<>> /\ ~NumeralGreater(UnixEpoch2000, x)

\* !isNaN(unixSeconds) && unixSeconds > 0 && unixSeconds > 946684800
UnixAccepted(x) == x # <<>> /\ x # <<"0">> /\ NumeralGreater(x, UnixEpoch2000)

\* the steps after the two relative forms: yesterday/today, Date, Unix seconds
ParseDateOrUnix(lower, date, unixSeconds) ==
    IF lower = WordYesterday \/ lower = WordToday
    THEN TimestampSub(<<"1">>, "DAY")
    ELSE IF date.valid THEN TimestampOfDate(date.stamp)
    ELSE IF UnixAccepted(unixSeconds)
    THEN IF NumeralGreater(unixSeconds, UnixSecondsMax)
         THEN InvalidTimeValue
         ELSE TimestampOfUnix(unixSeconds)
    ELSE InvalidTimeFormat

ParseAbsolute(timeStr, lower) == ParseDateOrUnix(lower, NewDate(timeStr), ParseFloat(timeStr))

\* the two relative forms, then the absolute ones
ParseRelative(timeStr, lower, agoMatch, lastMatch) ==
    IF lower = WordNow \/ lower = WordCurrent THEN CurrentTimestamp
    ELSE IF agoMatch.found
    THEN TimestampSub(ParseInt(agoMatch.amount), IntervalMap[agoMatch.unit])
    ELSE IF lastMatch.found
    THEN TimestampSub(ParseInt(lastMatch.amount), IntervalMap[lastMatch.unit])
    ELSE ParseAbsolute(timeStr, lower)

ParseLowered(timeStr, lower) ==
    ParseRelative(timeStr, lower, AgoMatch(lower), LastMatch(lower))

ParseTimeToTimestamp(timeStr) == ParseLowered(timeStr, Trim(ToLowerCase(timeStr)))

-----------------------------------------------------------------------------
(* analyzeFieldStructure: src/src/utils.ts and the copy in explore_fields *)

\* JSON values: numbers by value, strings by a code (0 is the empty string),
\* objects as the sequence of their <<key, value>> entries in insertion
\* order, arrays as objects keyed by index
JsonNumber(n) == [t |-> "number", n |-> n, entries |-> <<>>]

JsonString(n) == [t |-> "string", n |-> n, entries |-> <<>>]

JsonNull == [t |-> "null", n |-> 0, entries |-> <<>>]

JsonArray(items) ==
    [t |-> "array", n |-> 0,
     entries |-> [i \in 1..Len(items) |-> << <<DecimalDigits[i]>>, items[i] >>]]

JsonObject(entries) == [t |-> "object", n |-> 0, entries |-> entries]

\* typeof value
TypeOf(value) == IF value.t \in {"null", "array", "object"} THEN "object" ELSE value.t

\* typeof value === "object" && value !== null && !Array.isArray(value)
IsNestedObject(value) == value.t = "object"

KeyConstructor == <<"c", "o", "n", "s", "t", "r", "u", "c", "t", "o", "r">>

\* names that fieldAnalysis = {} inherits from Object.prototype; the sample
\* records use the first of constructor, toString, valueOf, hasOwnProperty, ...
ObjectPrototypeKeys == {KeyConstructor}

\* prefix ? `${prefix}.${key}` : key
FullKey(prefix, key) == IF prefix # <<>> THEN prefix \o <<".">> \o key ELSE key

\* the own property fullKey of fieldAnalysis, as its index, or 0
OwnField(fieldAnalysis, fullKey) ==
    LET at == {i \in 1..Len(fieldAnalysis) : fieldAnalysis[i].path = fullKey}
    IN  IF at = {} THEN 0 ELSE CHOOSE i \in at : TRUE

\* fieldAnalysis[fullKey] is truthy: an own entry, or an inherited member
HasField(fieldAnalysis, fullKey) ==
    OwnField(fieldAnalysis, fullKey) # 0 \/ fullKey \in ObjectPrototypeKeys

NewField(fullKey, value) ==
    [path |-> fullKey, type |-> TypeOf(value), sampleValues |-> <<>>, isNested |-> FALSE]

NoFields == [threw |-> FALSE, fields |-> <<>>]

\* the loop body of analyzeObject up to the recursive call: the entry is
\* created if fieldAnalysis[fullKey] is falsy, then marked nested or given
\* the sample; an inherited member has no sampleValues, and reading its
\* length throws TypeError
VisitField(acc, fullKey, value) ==
    LET fields == IF HasField(acc.fields, fullKey) THEN acc.fields
                  ELSE Append(acc.fields, NewField(fullKey, value))
        i      == OwnField(fields, fullKey)
    IN  IF IsNestedObject(value)
        THEN [acc EXCEPT !.fields =
                 IF i = 0 THEN fields ELSE [fields EXCEPT ![i].isNested = TRUE]]
        ELSE IF i = 0 THEN [acc EXCEPT !.threw = TRUE, !.fields = fields]
        ELSE [acc EXCEPT !.fields =
                 IF Len(fields[i].sampleValues) < 3
                 THEN [fields EXCEPT ![i].sampleValues = Append(@, value)]
                 ELSE fields]

\* analyzeObject(obj, prefix) over the entries of obj, from the state acc
RECURSIVE AnalyzeObject(_, _, _)
AnalyzeObject(entries, prefix, acc) ==
    IF acc.threw \/ entries = <<>> THEN acc
    ELSE LET key     == Head(entries)[1]
             value   == Head(entries)[2]
             fullKey == FullKey(prefix, key)
             visited == VisitField(acc, fullKey, value)
             inner   == IF IsNestedObject(value) /\ ~visited.threw
                        THEN AnalyzeObject(value.entries, fullKey, visited)
                        ELSE visited
         IN  AnalyzeObject(Tail(entries), prefix, inner)

\* logs.forEach((log) => analyzeObject(log))
RECURSIVE AnalyzeLogs(_, _)
AnalyzeLogs(logs, acc) ==
    IF acc.threw \/ logs = <<>> THEN acc
    ELSE AnalyzeLogs(Tail(logs), AnalyzeObject(Head(logs).entries, <<>>, acc))

\* an analysis that stops after the first record
AnalyzeFirstRecord(logs) ==
    AnalyzeLogs(IF logs = <<>> THEN logs ELSE <<Head(logs)>>, NoFields)

AnalyzeFieldStructure(logs) == AnalyzeLogs(logs, NoFields)

-----------------------------------------------------------------------------
(* Tool handlers: src/src/server.ts, and get_logs_from_time of the packaged *)
(* tools in src/Dockerfile                                                  *)

AllTools ==
    {"query_logs", "list_sources", "get_source_schema", "get_sample_logs",
     "query_logs_formatted", "explore_fields", "get_log_stats",
     "get_logs_by_time_range", "get_logs_from_time"}

\* numbers: absent (undefined), NaN, or an integer
NoLimit == [kind |-> "none", val |-> 0]

NaN == [kind |-> "nan", val |-> 0]

LimitOf(n) == [kind |-> "num", val |-> n]

\* the arguments of a tool call after schema validation; an absent source
\* name is the empty string, which `sourceName || sourceToken` treats alike
ToolArgs(sql, sourceName, limit, startTime, endTime, formatted, timeRange) ==
    [sql |-> sql, sourceName |-> sourceName, limit |-> limit,
     startTime |-> startTime, endTime |-> endTime,
     formatted |-> formatted, timeRange |-> timeRange]

NoArgs == ToolArgs(<<>>, "", NoLimit, <<>>, <<>>, FALSE, <<>>)

Min(a, b) == IF a < b THEN a ELSE b

\* a destructuring default: async ({ limit = 5 })
OrDefault(limit, default) == IF limit.kind = "num" THEN limit.val ELSE default

\* limit || 20
OrIfFalsy(n, default) == IF n = 0 THEN default ELSE n

\* LIMIT ${Math.min(limit, 100)} written without a cap
LimitClauseUncapped(tool, limit) ==
    IF tool \in {"get_sample_logs", "explore_fields", "get_logs_by_time_range",
                 "get_logs_from_time"}
    THEN LimitOf(OrDefault(limit, 5))
    ELSE NoLimit

\* the LIMIT clause of the query the tool builds, if it builds one
LimitClause(tool, limit) ==
    IF tool = "get_sample_logs" THEN LimitOf(Min(OrDefault(limit, 5), 100))
    ELSE IF tool = "explore_fields" THEN LimitOf(Min(OrDefault(limit, 10), 50))
    ELSE IF tool = "get_logs_by_time_range" THEN LimitOf(Min(OrDefault(limit, 100), 1000))
    ELSE IF tool = "get_logs_from_time" THEN LimitOf(Min(OrIfFalsy(OrDefault(limit, 20), 20), 20))
    ELSE NoLimit

\* timeRange.includes("h")
Includes(s, ch) == \E i \in 1..Len(s) : s[i] = ch

\* NaN * 24 is NaN
Times(x, n) == IF x.kind = "num" THEN LimitOf(x.val * n) ELSE x

\* the digits of radix 16, in lower case
HexDigits == DecimalDigits \o <<"a", "b", "c", "d", "e", "f">>

IsHexDigit(ch) == \E i \in 1..Len(HexDigits) : HexDigits[i] = ch

HexEnd(s, i) == RunEnd(s, i, IsHexDigit)

RECURSIVE RadixValue(_, _, _)
\* the integer the digits d denote in the radix of the table
RadixValue(d, table, radix) ==
    IF d = <<>> THEN 0
    ELSE radix * RadixValue(SubSeq(d, 1, Len(d) - 1), table, radix)
             + (IndexIn(table, d[Len(d)]) - 1)

\* the digits s[i..j-1], NaN if there are none
ParseIntDigits(s, i, j, table, radix) ==
    IF j = i THEN NaN ELSE LimitOf(RadixValue(SubSeq(s, i, j - 1), table, radix))

\* a prefix 0x or 0X selects radix 16 and is skipped
ParseIntRadix(s, lower, i) ==
    IF StartsWithAt(lower, i, <<"0", "x">>)
    THEN ParseIntDigits(lower, i + 2, HexEnd(lower, i + 2), HexDigits, 16)
    ELSE ParseIntDigits(s, i, DigitsEnd(s, i), DecimalDigits, 10)

\* the sign, if there is one
ParseIntSigned(s, lower, i) ==
    IF i <= Len(s) /\ s[i] = "-" THEN Times(ParseIntRadix(s, lower, i + 1), -1)
    ELSE IF i <= Len(s) /\ s[i] = "+" THEN ParseIntRadix(s, lower, i + 1)
    ELSE ParseIntRadix(s, lower, i)

\* parseInt(timeRange): white space, a sign, a radix prefix, then the longest
\* run of digits, else NaN
ParseIntPrefix(s) == ParseIntSigned(s, ToLowerCase(s), SpacesEnd(s, 1))

ParseTimeRangeToHours(timeRange) ==
    IF Includes(timeRange, "h") THEN ParseIntPrefix(timeRange)
    ELSE IF Includes(timeRange, "d") THEN Times(ParseIntPrefix(timeRange), 24)
    ELSE LimitOf(24)

WordSelect == <<"s", "e", "l", "e", "c", "t">>

WordFrom == <<"f", "r", "o", "m">>

NoSelect == [found |-> FALSE, columns |-> <<>>]

\* s[i..j-1] holds no line terminator: what `.` matches
NoNewline(s, i, j) == \A k \in i..(j - 1) : s[k] # "\n"

\* the captures that end at index b - 1 for a match from index a on
SelectEnds(sql, lower, a) ==
    {b \in (a + 1)..Len(sql) :
        /\ NoNewline(sql, a, b)
        /\ IsSpace(sql[b])
        /\ StartsWithAt(lower, SpacesEnd(sql, b), WordFrom)}

\* (.+?) takes as little text as lets the rest match
SelectShortest(sql, a, ends) ==
    [found |-> TRUE, columns |-> SubSeq(sql, a, (CHOOSE b \in ends : \A y \in ends : b <= y) - 1)]

\* \s+ takes as much of the white space sql[j..k-1] as lets the rest match
SelectLongest(sql, lower, as) ==
    IF as = {} THEN NoSelect
    ELSE SelectShortest(sql, CHOOSE a \in as : \A y \in as : y <= a,
                        SelectEnds(sql, lower, CHOOSE a \in as : \A y \in as : y <= a))

SelectMatchFrom(sql, lower, j, k) ==
    SelectLongest(sql, lower, {a \in (j + 1)..k : SelectEnds(sql, lower, a) # {}})

\* /SELECT\s+(.+?)\s+FROM/i tried at index i of sql, lower its lower case
SelectMatchAt(sql, lower, i) ==
    IF ~StartsWithAt(lower, i, WordSelect) THEN NoSelect
    ELSE SelectMatchFrom(sql, lower, i + Len(WordSelect), SpacesEnd(sql, i + Len(WordSelect)))

SelectMatchLowered(sql, lower) == FirstFound([i \in 1..Len(sql) |-> SelectMatchAt(sql, lower, i)])

\* sql.match(/SELECT\s+(.+?)\s+FROM/i)
SelectMatch(sql) == SelectMatchLowered(sql, ToLowerCase(sql))

\* userColumns === '*' || userColumns.includes('*')
IncludesStar(userColumns) == \E i \in 1..Len(userColumns) : userColumns[i] = "*"

\* a handler that validates nothing
FormattedSqlUnchecked(sql) == ""

\* the checks of the match: "" or the message thrown
SelectError(selectMatch) ==
    IF ~selectMatch.found THEN "Invalid SQL: Could not parse SELECT clause"
    ELSE IF IncludesStar(Trim(selectMatch.columns)) THEN "SELECT * is not allowed"
    ELSE ""

\* the validation of query_logs_formatted: "" or the message thrown
FormattedSqlError(sql) == SelectError(SelectMatch(sql))

\* no time expression in the query
NoTime == TimeExpr("none", <<>>, "", "", <<>>, <<>>)

RECURSIVE TextOf(_)
\* the characters of s as one text
TextOf(s) == IF s = <<>> THEN "" ELSE Head(s) \o TextOf(Tail(s))

\* the message of the error parseTimeToTimestamp(timeStr) threw, "" if it
\* returned expr
TimeError(timeStr, expr) ==
    IF expr.kind # "throw" THEN ""
    ELSE IF expr = InvalidTimeFormat
    THEN "Invalid time format: " \o TextOf(timeStr)
             \o ". Use ISO 8601, relative time (e.g., '1 hour ago'), or Unix timestamp."
    ELSE "Invalid time value"

\* the time expressions a tool parses, in the order it parses them;
\* get_logs_from_time has no end time
TimeStrings(tool, args) ==
    IF tool = "get_logs_by_time_range" THEN <<args.startTime, args.endTime>>
    ELSE IF tool = "get_logs_from_time" THEN <<args.startTime>>
    ELSE <<>>

\* parseTimeToTimestamp applied to each of them
TimestampsOf(given) == [i \in 1..Len(given) |-> ParseTimeToTimestamp(given[i])]

\* startTimestamp and endTimestamp as the time tools compute them
TimeBounds(tool, args) == TimestampsOf(TimeStrings(tool, args))

\* the message of the i-th time expression, "" past the last
ErrorFrom(given, bounds, i) ==
    IF i > Len(bounds) THEN "" ELSE TimeError(given[i], bounds[i])

\* a handler that checks its start time only
FirstTimeErrorStartOnly(given, bounds) == ErrorFrom(given, bounds, 1)

\* the first error among the time bounds, "" if there is none: the throw of
\* the start time leaves the handler before the end time is parsed
FirstTimeError(given, bounds) ==
    IF \A i \in 1..Len(bounds) : bounds[i].kind # "throw" THEN ""
    ELSE ErrorFrom(given, bounds,
                   CHOOSE i \in 1..Len(bounds) :
                       bounds[i].kind = "throw" /\ \A j \in 1..(i - 1) : bounds[j].kind # "throw")

\* what the handler throws before its first await, "" if nothing
ValidationError(tool, args, bounds) ==
    IF tool = "query_logs_formatted" THEN FormattedSqlError(args.sql)
    ELSE FirstTimeError(TimeStrings(tool, args), bounds)

\* sourceName || sourceToken; get_sample_logs interpolates sourceName as given
TableName(tool, args, cr) ==
    IF tool \in {"explore_fields", "get_log_stats", "get_logs_by_time_range",
                 "get_logs_from_time"}
    THEN IF args.sourceName # "" THEN args.sourceName ELSE cr.sourceToken
    ELSE IF tool = "get_sample_logs" THEN args.sourceName
    ELSE ""

NoQuery == [endpoint |-> "", auth |-> "", source |-> "", table |-> "",
            limit |-> NoLimit, hours |-> NoLimit, start |-> NoTime, end |-> NoTime]

\* the request of the handler's one fetch: endpoint and credentials as in
\* BackendRequest, and what the tool writes into its query
ToolQuery(tool, args, cr, bounds) ==
    LET request == BackendRequest(tool, cr)
    IN  [endpoint |-> request.endpoint,
         auth     |-> request.auth,
         source   |-> request.source,
         table    |-> TableName(tool, args, cr),
         limit    |-> LimitClause(tool, args.limit),
         hours    |-> IF tool = "get_log_stats"
                      THEN ParseTimeRangeToHours(args.timeRange) ELSE NoLimit,
         start    |-> IF Len(bounds) >= 1 THEN bounds[1] ELSE NoTime,
         end      |-> IF Len(bounds) >= 2 THEN bounds[2] ELSE NoTime]

KeyResult == <<"r", "e", "s", "u", "l", "t">>

KeySources == <<"s", "o", "u", "r", "c", "e", "s">>

KeyId == <<"i", "d">>

KeyName == <<"n", "a", "m", "e">>

KeyDescription == <<"d", "e", "s", "c", "r", "i", "p", "t", "i", "o", "n">>

\* undefined, which no JSON text holds but a missing property yields
JsUndefined == [t |-> "undefined", n |-> 0, entries |-> <<>>]

\* value[key]: reading a property of null throws, so the caller asks first
GetProperty(value, key) ==
    LET at == {i \in 1..Len(value.entries) : value.entries[i][1] = key}
    IN  IF value.t \notin {"object", "array"} \/ at = {} THEN JsUndefined
        ELSE value.entries[CHOOSE i \in at : \A j \in at : j <= i][2]

\* the number 0 and the string of code 0, the empty one, are falsy
JsTruthy(value) ==
    /\ value.t \notin {"undefined", "null"}
    /\ value.t \in {"number", "string"} => value.n # 0

\* a || b
JsOr(a, b) == IF JsTruthy(a) THEN a ELSE b

IsArray(value) == value.t = "array"

\* the elements of an array, in order
ItemsOf(value) == [i \in 1..Len(value.entries) |-> value.entries[i][2]]

\* what a backend call comes to: fetch rejects, answers a non-success
\* status, answers a body that is no JSON, or answers JSON
BackendAnswer(kind, body) == [kind |-> kind, body |-> body]

NoAnswer == BackendAnswer("none", JsonNull)

NoPayload == [kind |-> "none", isError |-> FALSE, text |-> "", body |-> JsonNull]

\* { content: [{ type: "text", text: JSON.stringify(body) }] }
SuccessPayload(body) == [kind |-> "success", isError |-> FALSE, text |-> "", body |-> body]

\* { content: [{ type: "text", text }], isError: true }
ErrorPayload(text) == [kind |-> "error", isError |-> TRUE, text |-> text, body |-> JsonNull]

\* an error that leaves the handler
Thrown(text) == [kind |-> "throw", isError |-> FALSE, text |-> text, body |-> JsonNull]

\* a handler without its try/catch
Uncaught(tool, outcome) == outcome

\* catch (error) { return { content: [... `Error: ${errorMessage}`], isError: true } };
\* query_logs and list_sources write "Proxy Error: "
Caught(tool, outcome) ==
    IF outcome.kind # "throw" THEN outcome
    ELSE ErrorPayload((IF tool \in {"query_logs", "list_sources"}
                       THEN "Proxy Error: " ELSE "Error: ") \o outcome.text)

\* source.id without its default
FieldOrUndefined(source, key) == GetProperty(source, key)

\* source.id || ""
FieldOrEmpty(source, key) == JsOr(GetProperty(source, key), JsonString(0))

\* sources.map((source) => ({ id, name, description }))
FormattedSource(source) ==
    JsonObject(<< <<KeyId, FieldOrEmpty(source, KeyId)>>,
                  <<KeyName, FieldOrEmpty(source, KeyName)>>,
                  <<KeyDescription, FieldOrEmpty(source, KeyDescription)>> >>)

\* list_sources after response.json()
ListSourcesResult(data) ==
    IF data.t = "null" THEN Thrown("TypeError")
    ELSE LET sources == IF IsArray(data) THEN data
                        ELSE JsOr(GetProperty(data, KeySources), JsonArray(<<>>))
         IN  IF ~IsArray(sources) THEN Thrown("TypeError")
             ELSE IF \E i \in 1..Len(ItemsOf(sources)) : ItemsOf(sources)[i].t = "null"
             THEN Thrown("TypeError")
             ELSE SuccessPayload(JsonObject(<< <<KeySources,
                      JsonArray([i \in 1..Len(ItemsOf(sources)) |->
                                    FormattedSource(ItemsOf(sources)[i])])>> >>))

\* explore_fields after executeQuery: samples.forEach(analyzeObject)
ExploreFieldsResult(samples) ==
    IF ~IsArray(samples) THEN Thrown("TypeError")
    ELSE IF \E i \in 1..Len(ItemsOf(samples)) : ItemsOf(samples)[i].t = "null"
    THEN Thrown("TypeError")
    ELSE IF AnalyzeFieldStructure(ItemsOf(samples)).threw THEN Thrown("TypeError")
    ELSE SuccessPayload(samples)

\* the handler from response.json() on; data.result of null throws
JsonResult(tool, data) ==
    IF tool = "get_source_schema" THEN SuccessPayload(data)
    ELSE IF tool = "list_sources" THEN ListSourcesResult(data)
    ELSE IF data.t = "null" THEN Thrown("TypeError")
    ELSE IF tool = "get_sample_logs"
    THEN SuccessPayload(JsOr(GetProperty(data, KeyResult),
                             IF IsArray(data) THEN data ELSE JsonArray(<<>>)))
    ELSE IF tool = "explore_fields"
    THEN ExploreFieldsResult(JsOr(GetProperty(data, KeyResult), data))
    ELSE SuccessPayload(JsOr(GetProperty(data, KeyResult), data))

\* the tools that fetch themselves and return on !response.ok
FetchesInline == {"query_logs", "list_sources", "get_source_schema", "get_sample_logs"}

\* the handler from the settling of its fetch to its return, before the catch
AnswerResult(tool, answer) ==
    IF answer.kind = "network" THEN Thrown("fetch failed")
    ELSE IF answer.kind = "status"
    THEN IF tool \in FetchesInline
         THEN ErrorPayload(IF tool \in {"query_logs", "list_sources"}
                           THEN "Logflare Error: " ELSE "Logflare API Error: ")
         ELSE Thrown("Logflare API Error: ")
    ELSE IF answer.kind = "badjson" THEN Thrown("SyntaxError")
    ELSE JsonResult(tool, answer.body)

\* a handler that fetches once more after a failure
FetchesAfterRetry(tool, answer, fetches) ==
    IF answer.kind \in {"status", "network"} THEN fetches + 1 ELSE fetches

\* the fetches of the handler once its fetch has settled: every path from
\* there leads to a return or a throw, none to another fetch
FetchesAfter(tool, answer, fetches) == fetches

-----------------------------------------------------------------------------
(* One tool invocation and one utility-function application under observation *)

NoInvocation ==
    [pc |-> "none", conn |-> 0, tool |-> "", args |-> NoArgs, fetches |-> 0,
     req |-> NoQuery, answer |-> NoAnswer, payload |-> NoPayload]

\* the handler once its validation has thrown error, or nothing for ""
HandlerAfterValidation(conn, tool, args, bounds, error) ==
    IF error # ""
    THEN [pc |-> "returned", conn |-> conn, tool |-> tool, args |-> args,
          fetches |-> 0, req |-> NoQuery, answer |-> NoAnswer,
          payload |-> Caught(tool, Thrown(error))]
    ELSE [pc |-> "awaiting", conn |-> conn, tool |-> tool, args |-> args,
          fetches |-> 1, req |-> ToolQuery(tool, args, ToolCreds(conn), bounds),
          answer |-> NoAnswer, payload |-> NoPayload]

\* the handler of `tool` on connection conn up to its first await, or to
\* its return if its validation throws
HandlerStart(conn, tool, args, bounds) ==
    HandlerAfterValidation(conn, tool, args, bounds, ValidationError(tool, args, bounds))

NoCalc == [fn |-> "", arg |-> <<>>, done |-> FALSE, res |-> <<>>]

\* a call of fn on arg that has not returned yet
CalcOf(fn, arg) == [fn |-> fn, arg |-> arg, done |-> FALSE, res |-> <<>>]

-----------------------------------------------------------------------------
InitSessions ==
    /\ activeSessions = EmptyMap
    /\ timers = EmptyMap
    /\ st = [c \in Conns |-> "idle"]
    /\ closed = [c \in Conns |-> FALSE]
    /\ closure = [c \in Conns |-> NoClosure]
    /\ idleFor = [c \in Conns |-> 0]
    /\ out = NoOut
    /\ sseOut = [c \in Conns |-> "none"]
    /\ calls = [i \in Slots |-> FreeCall]
    /\ crashed = FALSE
    /\ expired = {}

Init ==
    /\ InitSessions
    /\ inv = NoInvocation
    /\ calc = NoCalc

(* app.get("/sse"): validation, then server + tools + transport + timer +   *)
(* table entry + close listener, up to the await of server.connect.        *)
GetSse(c, apiKey, sourceToken) ==
    /\ st[c] = "idle"
    /\ IF HeaderRejected(apiKey) \/ HeaderRejected(sourceToken)
       THEN /\ out' = HttpOut("GET /sse", 401, "", c, 0)
            /\ UNCHANGED <<activeSessions, timers, st, closed, closure, idleFor,
                           sseOut, calls, crashed, expired, evalVars>>
       ELSE /\ CanArm(timers, SessionIdOf(c))
            /\ LET sid == SessionIdOf(c)
                   h   == FreshTimer(timers, sid)
               IN  /\ timers' = CreateSession(activeSessions, timers, c, sid, h).timers
                   /\ activeSessions' = CreateSession(activeSessions, timers, c, sid, h).sessions
            /\ closure' = [closure EXCEPT ![c] =
                              [apiKey |-> apiKey.val, sourceToken |-> sourceToken.val]]
            /\ st' = [st EXCEPT ![c] = "connecting"]
            /\ idleFor' = [idleFor EXCEPT ![c] = 0]
            /\ UNCHANGED <<closed, out, sseOut, calls, crashed, expired, evalVars>>

(* await server.connect(transport) resolves: the stream is open and the    *)
(* endpoint event carrying the session id has been written.                *)
ConnectOk(c) ==
    /\ st[c] = "connecting"
    /\ st' = [st EXCEPT ![c] = "open"]
    /\ sseOut' = [sseOut EXCEPT ![c] = "endpoint"]
    /\ out' = HttpOut("GET /sse", 200, SessionIdOf(c), c, 0)
    /\ UNCHANGED <<activeSessions, timers, closed, closure, idleFor,
                   calls, crashed, expired, evalVars>>

(* await server.connect(transport) rejects: the catch block.               *)
ConnectFail(c) ==
    /\ st[c] = "connecting"
    /\ LET r == OnConnectErrorCleanup(SessionIdOf(c))
       IN  /\ activeSessions' = r.sessions
           /\ timers' = r.timers
           /\ crashed' = (crashed \/ r.threw)
           /\ out' = IF r.threw THEN out
                     ELSE HttpOut("GET /sse", 500, SessionIdOf(c), c, 0)
    /\ st' = [st EXCEPT ![c] = "failed"]
    /\ idleFor' = [idleFor EXCEPT ![c] = 0]
    /\ UNCHANGED <<closed, closure, sseOut, calls, expired, evalVars>>

(* res.on("close") fires, once per response.                               *)
ResClose(c) ==
    /\ st[c] \in {"connecting", "open", "failed"}
    /\ ~closed[c]
    /\ LET r == OnCloseCleanup(SessionIdOf(c))
       IN  /\ activeSessions' = r.sessions
           /\ timers' = r.timers
           /\ crashed' = (crashed \/ r.threw)
           /\ out' = IF r.found /\ ~r.threw
                     THEN ConsoleOut("closed", SessionIdOf(c), c)
                     ELSE out
    /\ closed' = [closed EXCEPT ![c] = TRUE]
    /\ idleFor' = [idleFor EXCEPT ![c] = 0]
    /\ calls' = CallsAfterRemoval(calls, SessionIdOf(c))
    /\ UNCHANGED <<st, closure, sseOut, expired, evalVars>>

(* A due timer fires: its callback deletes the id it closed over.          *)
TimerFire(h) ==
    /\ h \in DOMAIN timers
    /\ timers[h].remaining = 0
    /\ activeSessions' = OnTimeout(timers[h].sid)
    /\ timers' = ClearTimeout(timers, h)
    /\ out' = ConsoleOut("expired", timers[h].sid, 0)
    /\ expired' = expired \cup {timers[h].sid}
    /\ calls' = CallsAfterRemoval(calls, timers[h].sid)
    /\ UNCHANGED <<st, closed, closure, idleFor, sseOut, crashed, evalVars>>

(* d minutes pass; no armed timer is overdue.                              *)
Tick(d) ==
    /\ \A h \in DOMAIN timers : timers[h].remaining >= d
    /\ timers' = [h \in DOMAIN timers |->
                     [timers[h] EXCEPT !.remaining = timers[h].remaining - d]]
    /\ idleFor' = [c \in Conns |->
                     IF st[c] \in {"connecting", "open"} /\ ~closed[c]
                     THEN IF idleFor[c] + d > IdleCap THEN IdleCap ELSE idleFor[c] + d
                     ELSE idleFor[c]]
    /\ UNCHANGED <<activeSessions, st, closed, closure, out, sseOut,
                   calls, crashed, expired, evalVars>>

(* POST /sse with the route not registered: the framework's 404 *)
PostSseUnrouted ==
    /\ out' = HttpOut("POST /sse", 404, "", 0, 0)
    /\ UNCHANGED <<activeSessions, timers, st, closed, closure, idleFor,
                   sseOut, calls, crashed, expired, evalVars>>

(* app.post("/sse") *)
PostSse ==
    /\ out' = HttpOut("POST /sse", 405, "", 0, 0)
    /\ UNCHANGED <<activeSessions, timers, st, closed, closure, idleFor,
                   sseOut, calls, crashed, expired, evalVars>>

(* app.post("/messages"): 400 / 404, or timer reset and forward.           *)
(* ok: whether transport.handlePostMessage returns or throws.  A delivered *)
(* tool call reaches the tool handler of the server connected to the       *)
(* transport in the microtasks of the same turn (req.body is already       *)
(* parsed), and the handler runs up to its await of fetch: the backend     *)
(* request is built from the handler's closure before anything else runs.  *)
PostMessagesSession(p, body, ok) ==
    IF ParamMissing(p)
    THEN /\ out' = HttpOut("POST /messages", 400, p.val, 0, 0)
         /\ UNCHANGED <<activeSessions, timers, st, closed, closure, idleFor,
                        sseOut, calls, crashed, expired>>
    ELSE IF ~SessionFound(p)
    THEN /\ out' = HttpOut("POST /messages", 404, p.val, 0, 0)
         /\ UNCHANGED <<activeSessions, timers, st, closed, closure, idleFor,
                        sseOut, calls, crashed, expired>>
    ELSE LET sid     == p.val
             cleared == ClearedOnMessage(sid)
             target  == ForwardTarget(sid)
             spawn   == ok /\ body \in ToolNames
         IN  /\ CanArm(cleared, sid)
             /\ spawn => HasFreeSlot
             /\ LET h == FreshTimer(cleared, sid)
                IN  /\ timers' = TimersAfterMessage(sid, h)
                    /\ activeSessions' =
                           IF ok THEN [activeSessions EXCEPT ![sid].timeout = h]
                           ELSE OnMessageError([activeSessions EXCEPT ![sid].timeout = h], sid)
             /\ idleFor' = [idleFor EXCEPT ![ConnOf(sid)] = 0]
             /\ out' = HttpOut("POST /messages", IF ok THEN 202 ELSE 500, sid, 0, target)
             /\ calls' = IF spawn
                         THEN [calls EXCEPT ![FreeSlot] =
                                  [pc |-> "awaiting", sid |-> sid, conn |-> target,
                                   tool |-> body,
                                   req |-> BackendRequest(body, ToolCreds(target))]]
                         ELSE calls
             /\ UNCHANGED <<st, closed, closure, sseOut, crashed, expired>>

PostMessages(p, body, ok) ==
    /\ PostMessagesSession(p, body, ok)
    /\ UNCHANGED evalVars

(* The backend answers (ok, a non-success status, or a network failure):   *)
(* the handler returns its payload, written on the stream if still open.   *)
ToolFinish(i, answer) ==
    /\ calls[i].pc = "awaiting"
    /\ calls' = [calls EXCEPT ![i] = FreeCall]
    /\ sseOut' = IF closed[calls[i].conn] THEN sseOut
                 ELSE [sseOut EXCEPT ![calls[i].conn] = ToolPayload(answer)]
    /\ UNCHANGED <<activeSessions, timers, st, closed, closure, idleFor,
                   out, crashed, expired, evalVars>>

(* POST /messages delivers a call of `tool` to the session of connection c: *)
(* the session is touched as by any message, and the handler runs up to    *)
(* its first await, or to its return if its validation throws.             *)
ToolCall(c, tool, args) ==
    /\ inv.pc = "none"
    /\ st[c] = "open"
    /\ SessionFound(Str(SessionIdOf(c)))
    /\ PostMessagesSession(Str(SessionIdOf(c)), "tools/call", TRUE)
    /\ inv' = HandlerStart(ForwardTarget(SessionIdOf(c)), tool, args, TimeBounds(tool, args))
    /\ UNCHANGED calc

(* The fetch of the handler settles and the handler runs to its return.    *)
ToolAnswer(answer) ==
    /\ inv.pc = "awaiting"
    /\ inv' = [inv EXCEPT !.pc = "returned",
                          !.answer = answer,
                          !.fetches = FetchesAfter(inv.tool, answer, inv.fetches),
                          !.payload = Caught(inv.tool, AnswerResult(inv.tool, answer))]
    /\ UNCHANGED <<sessionVars, calc>>

(* The returned payload is written on the stream, if that is still open;   *)
(* an error that left the handler is no payload.                           *)
ToolSend ==
    /\ inv.pc = "returned"
    /\ inv' = [inv EXCEPT !.pc = "sent"]
    /\ sseOut' = IF closed[inv.conn] \/ inv.payload.kind = "throw" THEN sseOut
                 ELSE [sseOut EXCEPT ![inv.conn] =
                          IF inv.payload.isError THEN "error" ELSE "result"]
    /\ UNCHANGED <<activeSessions, timers, st, closed, closure, idleFor,
                   out, calls, crashed, expired, calc>>

-----------------------------------------------------------------------------
Lifecycle(C) ==
    \/ \E c \in C : \E k \in HeaderValues(ClientApiKey(c)) :
           \E t \in HeaderValues(ClientSourceToken(c)) : GetSse(c, k, t)
    \/ \E c \in C : ConnectOk(c)
    \/ \E c \in C : ConnectFail(c)
    \/ \E c \in C : ResClose(c)
    \/ \E h \in Handles : TimerFire(h)
    \/ PostSse
    \/ \E p \in SessionIdParams : \E ok \in BOOLEAN : PostMessages(p, "ping", ok)

(* The session lifecycle of every connection; the clock is read once per   *)
(* timeout period.                                                         *)
Next ==
    \/ Lifecycle(Conns)
    \/ Tick(SESSION_TIMEOUT_MIN)

Spec == Init /\ [][Next]_vars

(* The same handlers with the clock read every minute, for the connections *)
(* 1..MaxTimedConns.                                                       *)
NextMinute ==
    \/ Lifecycle(TimedConns)
    \/ Tick(1)

SpecMinute == Init /\ [][NextMinute]_vars

(* Sessions with tool calls in the messages and backend calls in flight.   *)
NextTools ==
    \/ \E c \in Conns : GetSse(c, Str(ClientApiKey(c)), Str(ClientSourceToken(c)))
    \/ \E c \in Conns : ConnectOk(c)
    \/ \E c \in Conns : ResClose(c)
    \/ \E h \in Handles : TimerFire(h)
    \/ Tick(SESSION_TIMEOUT_MIN)
    \/ \E c \in Conns : \E b \in ToolNames : PostMessages(Str(SessionIdOf(c)), b, TRUE)
    \/ \E i \in Slots : \E a \in BackendAnswers : ToolFinish(i, a)

SpecTools == Init /\ [][NextTools]_vars

-----------------------------------------------------------------------------
(* Properties *)

\* armed timers whose callback closes over sid
TimersOf(tm, sid) == {h \in DOMAIN tm : tm[h].sid = sid}

\* the header or parameter is absent, empty, or not a single string
NotASingleString(v) == v.kind = "undefined" \/ v.kind = "array" \/ v.val = ""

\* a backend request is in flight for slot i
InFlight(i) == calls[i].pc = "awaiting"

(* C1 as stated: every backend request issued by a tool invoked on session *)
(* A carries A's api key and A's source token.                             *)
C1_EveryRequestCarriesKeyAndToken ==
    \A i \in Slots : InFlight(i) =>
        /\ calls[i].req.auth = ClientApiKey(ConnOf(calls[i].sid))
        /\ calls[i].req.source = ClientSourceToken(ConnOf(calls[i].sid))

(* C1, amended: every backend request issued by a tool invoked on session  *)
(* A carries A's api key, and A's source token wherever the request has a  *)
(* source token (list_sources sends none); it never carries the api key or *)
(* the source token of another session.                                    *)
C1_SessionIsolation ==
    \A i \in Slots : InFlight(i) =>
        LET a == ConnOf(calls[i].sid)
        IN  /\ calls[i].req.auth = ClientApiKey(a)
            /\ calls[i].req.source =
                   IF calls[i].tool = "list_sources" THEN NoToken ELSE ClientSourceToken(a)
            /\ \A b \in Conns \ {a} :
                   /\ calls[i].req.auth # ClientApiKey(b)
                   /\ calls[i].req.source # ClientSourceToken(b)

\* two sessions with a backend call in flight at the same time
C1_Witness ==
    \E i, j \in Slots :
        /\ InFlight(i) /\ InFlight(j)
        /\ calls[i].sid # calls[j].sid
        /\ calls[i].tool = "query_logs"
        /\ calls[i].sid \in DOMAIN activeSessions
        /\ calls[j].sid \in DOMAIN activeSessions

\* a removal path (close handler, connect catch) runs for connection c in this step
RemovalRuns(c) ==
    \/ ~closed[c] /\ closed'[c]
    \/ st[c] = "connecting" /\ st'[c] = "failed"

(* C2: a removal path that runs for a session id raises no error, leaves   *)
(* the table without that id, and leaves every other session's timer as it *)
(* was; when the id is already gone (removed before, or expired) the table *)
(* and the timers are exactly as before.                                   *)
C2_IdempotentCleanup ==
    [][\A c \in Conns : RemovalRuns(c) =>
          LET sid == SessionIdOf(c)
          IN  /\ ~crashed'
              /\ sid \notin DOMAIN activeSessions'
              /\ \A h \in DOMAIN timers : timers[h].sid # sid =>
                     h \in DOMAIN timers' /\ timers'[h] = timers[h]
              /\ sid \notin DOMAIN activeSessions =>
                     activeSessions' = activeSessions /\ timers' = timers]_vars

\* the close handler has run after the connect catch cleaned up, another session live
C2_Witness ==
    \E c \in Conns :
        /\ closed[c] /\ st[c] = "failed"
        /\ ~crashed
        /\ activeSessions # EmptyMap

(* C3: while the connection is not closed and its handshake has not       *)
(* failed, a session whose last accepted message (or whose creation, when  *)
(* it has accepted none) was idleFor minutes ago is in the table up to 29  *)
(* minutes after it and is absent from 31 minutes after it.                *)
C3_TimerReset ==
    \A c \in Conns :
        (st[c] \in {"connecting", "open"} /\ ~closed[c]) =>
            /\ idleFor[c] <= 29 => SessionIdOf(c) \in DOMAIN activeSessions
            /\ idleFor[c] >= 31 => SessionIdOf(c) \notin DOMAIN activeSessions

\* 29 minutes after a message accepted one minute before the creation timer was
\* due, the session is still in the table
C3_Witness ==
    \E c \in Conns :
        /\ st[c] = "open" /\ ~closed[c]
        /\ out = HttpOut("POST /messages", 202, SessionIdOf(c), 0, c)
        /\ idleFor[c] = 29
        /\ SessionIdOf(c) \in DOMAIN activeSessions
        /\ TimersOf(timers, SessionIdOf(c)) = {activeSessions[SessionIdOf(c)].timeout}

(* C4: a POST /messages without a sessionId is answered 400, one whose id  *)
(* is not in the table is answered 404; either way the table, the timers   *)
(* and the tool invocations are unchanged and nothing is forwarded.        *)
C4_UnknownIdRejected ==
    [][\A p \in SessionIdParams : \A ok \in BOOLEAN :
          ((NotASingleString(p) \/ p.val \notin DOMAIN activeSessions)
             /\ out'.route = "POST /messages"
             /\ PostMessages(p, "ping", ok)) =>
              /\ out'.status = IF NotASingleString(p) THEN 400 ELSE 404
              /\ out'.fwd = 0
              /\ UNCHANGED <<activeSessions, timers, calls, sseOut>>]_vars

\* a message for a removed session was answered 404 while another session is live
C4_Witness ==
    \E c \in Conns :
        /\ out = HttpOut("POST /messages", 404, SessionIdOf(c), 0, 0)
        /\ st[c] # "idle"
        /\ activeSessions # EmptyMap

(* C5: a GET /sse whose api-key or source-token header is absent, empty or *)
(* not a single string is answered 401 and creates no server closure, no   *)
(* timer, no table entry and no backend call.                              *)
C5_AuthFailure ==
    [][\A c \in Conns :
          \A k \in HeaderValues(ClientApiKey(c)) : \A t \in HeaderValues(ClientSourceToken(c)) :
              ((NotASingleString(k) \/ NotASingleString(t)) /\ GetSse(c, k, t)) =>
                  /\ out' = HttpOut("GET /sse", 401, "", c, 0)
                  /\ UNCHANGED <<activeSessions, timers, st, closure, calls>>]_vars

\* a rejected stream request, with another session in the table
C5_Witness ==
    \E c \in Conns :
        /\ out = HttpOut("GET /sse", 401, "", c, 0)
        /\ st[c] = "idle"
        /\ closure[c] = NoClosure
        /\ activeSessions # EmptyMap

(* C6: once the handshake of a connection has failed, its session is not   *)
(* in the table and no timer for it is armed, from the state in which the  *)
(* 500 is surfaced onwards.                                                *)
C6_EstablishmentFailureCleanup ==
    \A c \in Conns : st[c] = "failed" =>
        /\ SessionIdOf(c) \notin DOMAIN activeSessions
        /\ TimersOf(timers, SessionIdOf(c)) = {}

\* the 500 of a failed handshake, while another session is in the table
C6_Witness ==
    \E c \in Conns :
        /\ st[c] = "failed"
        /\ out = HttpOut("GET /sse", 500, SessionIdOf(c), c, 0)
        /\ activeSessions # EmptyMap

(* C7: when the close event of a connection fires while its session is in  *)
(* the table, the timer stored in the entry at that moment is cancelled    *)
(* and the entry is deleted; after a close no timer for that id is armed,  *)
(* so none fires.                                                          *)
C7_CleanupOnDisconnect ==
    [][\A c \in Conns :
          LET sid == SessionIdOf(c)
          IN  /\ (~closed[c] /\ closed'[c] /\ sid \in DOMAIN activeSessions) =>
                     /\ activeSessions[sid].timeout \notin DOMAIN timers'
                     /\ sid \notin DOMAIN activeSessions'
              /\ closed'[c] => TimersOf(timers', sid) = {}]_vars

\* a session closed while in the table, another session's timer still armed
C7_Witness ==
    \E c \in Conns :
        /\ closed[c]
        /\ out = ConsoleOut("closed", SessionIdOf(c), c)
        /\ timers # EmptyMap

(* C8: a POST /sse is answered 405 and leaves the table and the timers     *)
(* unchanged.                                                              *)
C8_PostSseRejected ==
    [][(out' # out /\ out'.route = "POST /sse") =>
          /\ out'.status = 405
          /\ UNCHANGED <<activeSessions, timers>>]_vars

\* the 405 with sessions in the table
C8_Witness ==
    /\ out = HttpOut("POST /sse", 405, "", 0, 0)
    /\ activeSessions # EmptyMap
    /\ timers # EmptyMap

(* C9: a POST /messages with the id of a session in the table re-arms that *)
(* session's timer with the full timeout, hands the body to the transport  *)
(* created for that session and to no other, and leaves every other entry  *)
(* and its timer unchanged.                                                *)
C9_MessageRouting ==
    [][\A p \in SessionIdParams : \A ok \in BOOLEAN :
          (p.kind = "string" /\ p.val \in DOMAIN activeSessions
             /\ out'.route = "POST /messages"
             /\ PostMessages(p, "ping", ok)) =>
              LET sid == p.val
              IN  /\ out'.fwd = ConnOf(sid)
                  /\ out'.sessionId = sid
                  /\ sid \in DOMAIN activeSessions'
                  /\ TimersOf(timers', sid) = {activeSessions'[sid].timeout}
                  /\ timers'[activeSessions'[sid].timeout].remaining = 30
                  /\ \A s \in (DOMAIN activeSessions) \ {sid} :
                         /\ s \in DOMAIN activeSessions'
                         /\ activeSessions'[s] = activeSessions[s]
                         /\ activeSessions[s].timeout \in DOMAIN timers =>
                                /\ activeSessions[s].timeout \in DOMAIN timers'
                                /\ timers'[activeSessions[s].timeout] =
                                       timers[activeSessions[s].timeout]]_vars

\* a message forwarded to the second session's transport while the first is live
C9_Witness ==
    \E c \in Conns :
        /\ out = HttpOut("POST /messages", 202, SessionIdOf(c), 0, c)
        /\ \E d \in Conns : d < c /\ SessionIdOf(d) \in DOMAIN activeSessions
        /\ idleFor[c] = 0

(* C10: when a session's idle timer fires the entry is deleted and nothing *)
(* is written to the client (no HTTP response, no stream event); a message *)
(* POSTed afterwards with that id is answered 404 and not forwarded.       *)
C10_SilentExpiry ==
    [][/\ \A h \in Handles : TimerFire(h) =>
              /\ timers[h].sid \notin DOMAIN activeSessions'
              /\ sseOut' = sseOut
              /\ out'.route = "console"
       /\ \A p \in SessionIdParams : \A ok \in BOOLEAN :
              (p.val \in expired /\ out'.route = "POST /messages"
                 /\ PostMessages(p, "ping", ok)) =>
                  /\ out'.status = 404
                  /\ out'.fwd = 0
                  /\ UNCHANGED <<calls, sseOut>>]_vars

\* the 404 for an expired session whose stream is still open
C10_Witness ==
    \E c \in Conns :
        /\ out = HttpOut("POST /messages", 404, SessionIdOf(c), 0, 0)
        /\ SessionIdOf(c) \in expired
        /\ ~closed[c]
        /\ sseOut[c] = "endpoint"

\* the close handler of connection c runs in this step
CloseRuns(c) == ~closed[c] /\ closed'[c]

\* the catch block of connection c's handshake runs in this step
CatchRuns(c) == st[c] = "connecting" /\ st'[c] = "failed"

\* the callback of a timer armed for connection c's session runs in this step
TimeoutRuns(c) ==
    \E h \in DOMAIN timers : timers[h].sid = SessionIdOf(c) /\ TimerFire(h)

(* C11: over every ordering of the three triggers of one session (timer    *)
(* callback, close handler, handshake catch) the entry is deleted at most  *)
(* once: once it has left the table it never returns, the step that        *)
(* deletes it is one of the three triggers, and a trigger that runs after  *)
(* the deletion changes neither the table nor the timers; no timer         *)
(* callback is left to run for a session already removed.                  *)
C11_CleanupAtMostOnce ==
    [][\A c \in Conns :
          LET sid     == SessionIdOf(c)
              present == sid \in DOMAIN activeSessions
          IN  /\ (st[c] # "idle" /\ ~present) => sid \notin DOMAIN activeSessions'
              /\ (present /\ sid \notin DOMAIN activeSessions') =>
                     (CloseRuns(c) \/ CatchRuns(c) \/ TimeoutRuns(c))
              /\ (~present /\ (CloseRuns(c) \/ CatchRuns(c))) =>
                     /\ activeSessions' = activeSessions
                     /\ timers' = timers
                     /\ out' # ConsoleOut("closed", sid, c)
              /\ ~present => ~TimeoutRuns(c)]_vars

\* all three triggers have run for one session: the timer first, then the
\* handshake catch, then the close handler
C11_Witness ==
    \E c \in Conns :
        /\ SessionIdOf(c) \in expired
        /\ st[c] = "failed"
        /\ closed[c]
        /\ ~crashed

\* a connection that passed credential validation and has not closed
Live(c) == st[c] # "idle" /\ ~closed[c]

\* the table entries that hold connection c's transport
EntriesOf(c) ==
    {s \in DOMAIN activeSessions : activeSessions[s].transport = NewSSEServerTransport(c)}

(* C12 as stated: every live connection has exactly one table entry.       *)
C12_ExactlyOneEntryPerLiveConnection ==
    \A c \in Conns : Live(c) => Cardinality(EntriesOf(c)) = 1

(* C12, amended: every live connection has at most one table entry, its    *)
(* own session id: exactly that one until its idle timer has fired or its  *)
(* handshake has failed, and none afterwards; the entries of two live      *)
(* connections have different session ids.                                 *)
C12_OneEntryPerLiveConnection ==
    /\ \A c \in Conns : Live(c) =>
           EntriesOf(c) = IF SessionIdOf(c) \in expired \/ st[c] = "failed"
                          THEN {}
                          ELSE {SessionIdOf(c)}
    /\ \A c, d \in Conns : (c # d /\ Live(c) /\ Live(d)) => EntriesOf(c) \cap EntriesOf(d) = {}

\* an open connection whose session has expired, next to a live session that
\* has its entry
C12_Witness ==
    \E c, d \in Conns :
        /\ Live(c) /\ st[c] = "open" /\ SessionIdOf(c) \in expired
        /\ EntriesOf(c) = {}
        /\ Live(d) /\ EntriesOf(d) = {SessionIdOf(d)}

(* C19: every entry stored by a validated stream request holds a server    *)
(* instance and a transport that no entry already in the table holds, and  *)
(* no two entries of the table share a server instance or a transport.     *)
C19_FreshServerAndTransport ==
    [][\A s \in DOMAIN activeSessions' :
          /\ s \notin DOMAIN activeSessions =>
                 \A r \in DOMAIN activeSessions :
                     /\ activeSessions'[s].server # activeSessions[r].server
                     /\ activeSessions'[s].transport # activeSessions[r].transport
          /\ \A r \in (DOMAIN activeSessions') \ {s} :
                 /\ activeSessions'[s].server # activeSessions'[r].server
                 /\ activeSessions'[s].transport # activeSessions'[r].transport]_vars

\* the second of two sessions has completed its handshake while the first is
\* in the table
C19_Witness ==
    \E c \in Conns :
        /\ out = HttpOut("GET /sse", 200, SessionIdOf(c), c, 0)
        /\ SessionIdOf(c) \in DOMAIN activeSessions
        /\ \E d \in Conns : d # c /\ SessionIdOf(d) \in DOMAIN activeSessions

-----------------------------------------------------------------------------
(* parseTimeToTimestamp applied to bounded inputs *)

\* words per generated time string
MaxWords == 3

WordBanana == <<"b", "a", "n", "a", "n", "a">>

WordHours == <<"h", "o", "u", "r", "s">>

WordDays == <<"d", "a", "y", "s">>

\* the numerals of the inputs: a month, a day past the twelfth, a two-digit
\* year, and the Unix seconds around 946684800
TimeNumerals ==
    { <<"2">>, <<"1", "3">>, <<"4", "2">>,
      UnixEpoch2000,
      <<"9", "4", "6", "6", "8", "4", "8", "0", "1">> }

TimeWords ==
    {WordLast, WordAgo, WordNow, WordYesterday, WordBanana, WordDays}

\* a word or numeral, followed by a space or by nothing
TimeSlots ==
    {w \o sep : w \in TimeWords \cup TimeNumerals, sep \in {<<>>, <<" ">>}}

RECURSIVE Concat(_)
Concat(ws) == IF ws = <<>> THEN <<>> ELSE Head(ws) \o Concat(Tail(ws))

\* numerals of at most 15 digits are exact as IEEE doubles
ExactNumerals(s) ==
    \A i \in 1..Len(s) : IsDigit(s[i]) => DigitsEnd(s, i) - i <= 15

TimePhrases(n) ==
    {p \in {Concat(ws) : ws \in UNION {[1..k -> TimeSlots] : k \in 0..n}} :
        ExactNumerals(p)}

\* "2 hours ago", "last 3 days", "now", "42", "banana", "1700000000",
\* "current", "today", "last 3 days 2 hours ago", "now 2 days ago",
\* "99999999999999"
TimeExamples ==
    { <<"2", " ">> \o WordHours \o <<" ">> \o WordAgo,
      WordLast \o <<" ", "3", " ">> \o WordDays,
      WordNow,
      <<"4", "2">>,
      WordBanana,
      <<"1", "7", "0", "0", "0", "0", "0", "0", "0", "0">>,
      WordCurrent,
      WordToday,
      WordLast \o <<" ", "3", " ">> \o WordDays \o <<" ", "2", " ">> \o WordHours
          \o <<" ">> \o WordAgo,
      WordNow \o <<" ", "2", " ">> \o WordDays \o <<" ">> \o WordAgo,
      <<"9", "9", "9", "9", "9", "9", "9", "9", "9", "9", "9", "9", "9", "9">> }

\* the phrases as they are; the shorter ones also with a leading space and
\* in upper case
TimeInputs(n) ==
    TimeExamples \cup IsoLiterals
        \cup TimePhrases(n)
        \cup {<<" ">> \o p : p \in TimePhrases(n - 1)}
        \cup {ToUpperCase(p) : p \in TimePhrases(n - 1)}

InitParse ==
    /\ InitSessions
    /\ inv = NoInvocation
    /\ calc \in {CalcOf("parseTimeToTimestamp", s) : s \in TimeInputs(MaxWords)}

(* parseTimeToTimestamp(timeStr) returns or throws *)
ParseTime ==
    /\ calc.fn = "parseTimeToTimestamp"
    /\ ~calc.done
    /\ calc' = [calc EXCEPT !.done = TRUE, !.res = ParseTimeToTimestamp(calc.arg)]
    /\ UNCHANGED <<sessionVars, inv>>

NextParse == ParseTime

SpecParse == InitParse /\ [][NextParse]_vars


-----------------------------------------------------------------------------
(* analyzeFieldStructure applied to bounded lists of sample records *)

\* sample records per analysed list
MaxLogs == 4

KeyA == <<"a">>

KeyB == <<"b">>

KeyC == <<"c">>

KeyD == <<"d">>

\* {"a": {"b": 1}}
RecordAB == JsonObject(<< <<KeyA, JsonObject(<< <<KeyB, JsonNumber(1)>> >>)>> >>)

\* {"a": {"b": 2, "c": 3}}
RecordABC ==
    JsonObject(<< <<KeyA, JsonObject(<< <<KeyB, JsonNumber(2)>>, <<KeyC, JsonNumber(3)>> >>)>> >>)

\* {"a": 5}, {"a": null, "d": "x"}, {"a": {"b": {"c": 1}}}, {"a.b": [1], "d": "y"},
\* {} and {"constructor": 1}
SampleRecords ==
    { RecordAB,
      RecordABC,
      JsonObject(<< <<KeyA, JsonNumber(5)>> >>),
      JsonObject(<< <<KeyA, JsonNull>>, <<KeyD, JsonString(1)>> >>),
      JsonObject(<< <<KeyA, JsonObject(<< <<KeyB, JsonObject(<< <<KeyC, JsonNumber(1)>> >>)>> >>)>> >>),
      JsonObject(<< <<KeyA \o <<".">> \o KeyB, JsonArray(<<JsonNumber(1)>>)>>, <<KeyD, JsonString(2)>> >>),
      JsonObject(<<>>),
      JsonObject(<< <<KeyConstructor, JsonNumber(1)>> >>) }

SampleLogs(n) == UNION {[1..k -> SampleRecords] : k \in 0..n}

InitFields ==
    /\ InitSessions
    /\ inv = NoInvocation
    /\ calc \in {CalcOf("analyzeFieldStructure", logs) : logs \in SampleLogs(MaxLogs)}

(* analyzeFieldStructure(logs) returns or throws *)
AnalyzeFields ==
    /\ calc.fn = "analyzeFieldStructure"
    /\ ~calc.done
    /\ calc' = [calc EXCEPT !.done = TRUE, !.res = AnalyzeFieldStructure(calc.arg)]
    /\ UNCHANGED <<sessionVars, inv>>

NextFields == AnalyzeFields

SpecFields == InitFields /\ [][NextFields]_vars

TwoHoursAgo == <<"2", " ">> \o WordHours \o <<" ">> \o WordAgo

LastThreeDays == WordLast \o <<" ", "3", " ">> \o WordDays

SmallInteger == <<"4", "2">>

UnixLiterals ==
    { <<"1", "7", "0", "0", "0", "0", "0", "0", "0", "0">>,
      <<"9", "4", "6", "6", "8", "4", "8", "0", "1">> }

-----------------------------------------------------------------------------
(* One tool invocation on an established session *)

CallOf(tool, args) == [tool |-> tool, args |-> args]

\* sessions are established on the connections C with valid headers, one of
\* the calls is delivered, and its fetch settles with one of the answers
NextCalls(C, Calls, Answers) ==
    \/ \E c \in C : GetSse(c, Str(ClientApiKey(c)), Str(ClientSourceToken(c)))
    \/ \E c \in C : ConnectOk(c)
    \/ \E c \in C : ResClose(c)
    \/ \E c \in C : \E call \in Calls : ToolCall(c, call.tool, call.args)
    \/ \E a \in Answers : ToolAnswer(a)
    \/ ToolSend

\* SELECT a FROM t
SqlSelectA == ToUpperCase(WordSelect) \o <<" ", "a", " ">> \o ToUpperCase(WordFrom) \o <<" ", "t">>

\* SELECT * FROM t
SqlSelectStar == ToUpperCase(WordSelect) \o <<" ", "*", " ">> \o ToUpperCase(WordFrom) \o <<" ", "t">>

\* 24h, 7d
TimeRanges == { <<"2", "4", "h">>, <<"7", "d">>, <<>> }

SourceNames == {"", "app.logs"}

\* calls of every tool, with arguments that pass and that fail validation
OutcomeCalls ==
    {CallOf("list_sources", NoArgs), CallOf("get_source_schema", NoArgs)}
        \cup {CallOf("query_logs", ToolArgs(sql, "", NoLimit, <<>>, <<>>, FALSE, <<>>)) :
                 sql \in {SqlSelectA, SqlSelectStar}}
        \cup {CallOf("query_logs_formatted", ToolArgs(sql, "", NoLimit, <<>>, <<>>, FALSE, <<>>)) :
                 sql \in {SqlSelectA, SqlSelectStar, WordBanana}}
        \cup {CallOf("get_sample_logs", ToolArgs(<<>>, "app.logs", NoLimit, <<>>, <<>>, FALSE, <<>>))}
        \cup {CallOf("explore_fields", ToolArgs(<<>>, n, NoLimit, <<>>, <<>>, FALSE, <<>>)) :
                 n \in SourceNames}
        \cup {CallOf("get_log_stats", ToolArgs(<<>>, "", NoLimit, <<>>, <<>>, FALSE, r)) :
                 r \in TimeRanges}
        \cup {CallOf("get_logs_by_time_range", ToolArgs(<<>>, "", NoLimit, s, e, f, <<>>)) :
                 s \in {TwoHoursAgo, WordBanana}, e \in {WordNow, WordBanana}, f \in BOOLEAN}
        \cup {CallOf("get_logs_from_time", ToolArgs(<<>>, "", NoLimit, s, <<>>, FALSE, <<>>)) :
                 s \in {TwoHoursAgo, WordBanana}}

\* null, 0, [], [{"a":{"b":1}}], [null], [{"constructor":1}], {"result":[{"a":{"b":1}}]},
\* {"result":1}, {"result":null}, {"sources":[{"a":{"b":1}}]}
OutcomeBodies ==
    { JsonNull,
      JsonNumber(0),
      JsonArray(<<>>),
      JsonArray(<<RecordAB>>),
      JsonArray(<<JsonNull>>),
      JsonArray(<<JsonObject(<< <<KeyConstructor, JsonNumber(1)>> >>)>>),
      JsonObject(<< <<KeyResult, JsonArray(<<RecordAB>>)>> >>),
      JsonObject(<< <<KeyResult, JsonNumber(1)>> >>),
      JsonObject(<< <<KeyResult, JsonNull>> >>),
      JsonObject(<< <<KeySources, JsonArray(<<RecordAB>>)>> >>) }

Failures ==
    {BackendAnswer("network", JsonNull), BackendAnswer("status", JsonNull),
     BackendAnswer("badjson", JsonNull)}

OutcomeAnswers == Failures \cup {BackendAnswer("ok", b) : b \in OutcomeBodies}

NextOutcomes == NextCalls(Conns, OutcomeCalls, OutcomeAnswers)

SpecOutcomes == Init /\ [][NextOutcomes]_vars

\* the keyword, misspelt, in either case, or missing
SelectKeywords == {ToUpperCase(WordSelect), WordSelect, SubSeq(WordSelect, 1, 5), <<>>}

FromKeywords == {ToUpperCase(WordFrom), WordFrom, <<>>}

Gaps == {<<>>, <<" ">>, <<"\n">>, <<" ", " ">>}

\* *, a, "a, b", t.*, a list broken over two lines, and nothing
ColumnLists ==
    { <<"*">>, <<"a">>, <<"a", ",", " ", "b">>, <<"t", ".", "*">>,
      <<"a", ",", "\n", "b">>, <<>> }

SqlInputs ==
    {k1 \o g1 \o cols \o g2 \o k2 \o <<" ", "t">> :
        k1 \in SelectKeywords, g1 \in Gaps, cols \in ColumnLists,
        g2 \in Gaps, k2 \in FromKeywords}

FormattedCalls ==
    {CallOf("query_logs_formatted", ToolArgs(sql, "", NoLimit, <<>>, <<>>, FALSE, <<>>)) :
        sql \in SqlInputs}

SomeAnswers ==
    {BackendAnswer("status", JsonNull), BackendAnswer("ok", JsonArray(<<RecordAB>>))}

NextFormatted == NextCalls(TimedConns, FormattedCalls, SomeAnswers)

SpecFormatted == Init /\ [][NextFormatted]_vars

\* the largest of the requested limits, 9999 apart
MaxLimit == 1001

RequestedLimits == {NoLimit} \cup {LimitOf(n) : n \in (-1..MaxLimit) \cup {9999}}

LimitCalls ==
    {CallOf(tool, ToolArgs(<<>>, "app.logs", limit, WordNow, WordNow, FALSE, <<>>)) :
        tool \in {"get_sample_logs", "explore_fields", "get_logs_by_time_range",
                  "get_logs_from_time"},
        limit \in RequestedLimits}

NextLimits == NextCalls(TimedConns, LimitCalls, SomeAnswers)

SpecLimits == Init /\ [][NextLimits]_vars

\* elements per backend source list
MaxSources == 2

\* a field of a backend element: missing, or present with a string
OptionalField(key, values) == {<<>>} \cup {<< <<key, v>> >> : v \in values}

KeyToken == <<"t", "o", "k", "e", "n">>

\* backend elements: id "1", name "app.logs", a description that may be
\* null, and a token the tool does not pass on
BackendSources ==
    {JsonObject(i \o n \o d \o t) :
        i \in OptionalField(KeyId, {JsonString(1)}),
        n \in OptionalField(KeyName, {JsonString(2)}),
        d \in OptionalField(KeyDescription, {JsonString(3), JsonNull}),
        t \in OptionalField(KeyToken, {JsonString(4)})}

SourceLists(n) == UNION {[1..k -> BackendSources] : k \in 0..n}

\* a bare array, an object with a sources array, and {}, null, {"sources": 1}
SourceBodies(n) ==
    {JsonArray(l) : l \in SourceLists(n)}
        \cup {JsonObject(<< <<KeySources, JsonArray(l)>> >>) : l \in SourceLists(n)}
        \cup {JsonObject(<<>>), JsonNull, JsonObject(<< <<KeySources, JsonNumber(1)>> >>)}

SourceAnswers(n) == Failures \cup {BackendAnswer("ok", b) : b \in SourceBodies(n)}

NextSources == NextCalls(TimedConns, {CallOf("list_sources", NoArgs)}, SourceAnswers(MaxSources))

SpecSources == Init /\ [][NextSources]_vars

Parsed == calc.fn = "parseTimeToTimestamp" /\ calc.done

\* C15: parseTimeToTimestamp returns an expression, without error, for
\* "2 hours ago", "last 3 days", "now", an ISO-8601 literal and a Unix-seconds
\* literal greater than 946684800, and it fails with the validation error for
\* the bare small integer "42" and for the nonsense string "banana".
C15_TimeGrammarAcceptance ==
    Parsed =>
        /\ calc.arg \in {TwoHoursAgo, LastThreeDays, WordNow} \cup IsoLiterals \cup UnixLiterals
              => calc.res.kind # "throw"
        /\ calc.arg \in {SmallInteger, WordBanana} => calc.res = InvalidTimeFormat

\* "42" has been parsed, and the result is the first of January 2042
C15_Witness ==
    Parsed /\ calc.arg = SmallInteger /\ calc.res = TimestampOfDate(<<2042, 1, 1>>)


\* s[i..j-1] is a non-empty run of digits
DigitsBetween(s, i, j) == i < j /\ \A k \in i..(j - 1) : IsDigit(s[k])

\* s[i..j-1] is a run of white space, possibly empty
SpacesBetween(s, i, j) == \A k \in i..(j - 1) : IsSpace(s[k])

\* unit u, an optional plural s, optional white space and then w, from index k;
\* w is empty for the form that ends with the unit
UnitThen(s, k, u, w) ==
    /\ StartsWithAt(s, k, UnitWords[u])
    /\ \E p \in {0, 1} :
          /\ p = 1 => k + Len(UnitWords[u]) <= Len(s) /\ s[k + Len(UnitWords[u])] = "s"
          /\ \E q \in (k + Len(UnitWords[u]) + p)..(Len(s) + 1) :
                /\ SpacesBetween(s, k + Len(UnitWords[u]) + p, q)
                /\ StartsWithAt(s, q, w)

\* "N unit ago" with N = s[i..j-1] occurs in s from index i
AgoFormAt(s, i, j, u) ==
    /\ DigitsBetween(s, i, j)
    /\ \E k \in j..(Len(s) + 1) : SpacesBetween(s, j, k) /\ UnitThen(s, k, u, WordAgo)

\* "last N unit" with N = s[i..j-1] occurs in s, the word last from index l
LastFormAt(s, l, i, j, u) ==
    /\ StartsWithAt(s, l, WordLast)
    /\ l + Len(WordLast) < i
    /\ SpacesBetween(s, l + Len(WordLast), i)
    /\ DigitsBetween(s, i, j)
    /\ \E k \in j..(Len(s) + 1) : SpacesBetween(s, j, k) /\ UnitThen(s, k, u, <<>>)

Indices(s) == 1..(Len(s) + 1)

\* the numerals of s, each with every unit
NumeralsOf(s) ==
    {<<i, j, u>> : i \in {k \in 1..Len(s) : IsDigit(s[k])},
                   j \in {k \in Indices(s) : k = Len(s) + 1 \/ ~IsDigit(s[k])},
                   u \in 1..Len(UnitWords)}

AgoForms(s) == {m \in NumeralsOf(s) : AgoFormAt(s, m[1], m[2], m[3])}

LastForms(s) ==
    {m \in NumeralsOf(s) :
        \E l \in {k \in 1..Len(s) : s[k] = "l"} : LastFormAt(s, l, m[1], m[2], m[3])}

\* the occurrence a search from the left finds: the earliest start, and from
\* there the longest numeral
Leftmost(forms) ==
    CHOOSE m \in forms :
        \A n \in forms : m[1] < n[1] \/ (m[1] = n[1] /\ m[2] >= n[2])

\* current instant minus N units, for the occurrence m in s
MinusOf(s, m) == TimestampSub(StripZeros(SubSeq(s, m[1], m[2] - 1)), IntervalMap[m[3]])

\* "N unit ago" written out for the occurrence m in s
AsAgo(s, m) == SubSeq(s, m[1], m[2] - 1) \o <<" ">> \o UnitWords[m[3]] \o <<" ">> \o WordAgo

\* C20: parseTimeToTimestamp matches case-insensitively and takes the first
\* applicable form in this order: (1) now/current give the current instant;
\* (2) "N unit ago" gives the current instant minus N units; (3) "last N unit"
\* gives the same expression as "N unit ago"; (4) yesterday and today both
\* give the current instant minus 1 day; (5) a string the date parser accepts
\* gives that date; (6) a number is taken as Unix seconds only when it is
\* greater than 946684800; (7) everything else, a number of 946684800 or
\* less included, fails with the validation error.
C20_PriorityOrder ==
    Parsed =>
        LET lower == Trim(ToLowerCase(calc.arg))
            form1 == lower \in {WordNow, WordCurrent}
            ago   == AgoForms(lower)
            last  == LastForms(lower)
            form4 == lower \in {WordYesterday, WordToday}
            date  == NewDate(calc.arg)
            n     == ParseFloat(calc.arg)
        IN  IF form1 THEN calc.res = CurrentTimestamp
            ELSE IF ago # {} THEN calc.res = MinusOf(lower, Leftmost(ago))
            ELSE IF last # {}
            THEN /\ calc.res = MinusOf(lower, Leftmost(last))
                 /\ calc.res = ParseTimeToTimestamp(AsAgo(lower, Leftmost(last)))
            ELSE IF form4 THEN calc.res = TimestampSub(<<"1">>, "DAY")
            ELSE IF date.valid THEN calc.res = TimestampOfDate(date.stamp)
            ELSE IF n # <<>> /\ NumeralGreater(n, UnixEpoch2000)
            THEN calc.res \in {TimestampOfUnix(n), InvalidTimeValue}
            ELSE calc.res = InvalidTimeFormat

\* 946684800 itself reached the numeric step and was rejected
C20_Witness ==
    Parsed /\ calc.arg = UnixEpoch2000 /\ ~NewDate(calc.arg).valid
           /\ calc.res = InvalidTimeFormat


Analysed == calc.fn = "analyzeFieldStructure" /\ calc.done

\* the keys of a path joined with dots
RECURSIVE DotJoined(_)
DotJoined(keys) ==
    IF Len(keys) = 1 THEN keys[1]
    ELSE DotJoined(SubSeq(keys, 1, Len(keys) - 1)) \o <<".">> \o keys[Len(keys)]

\* every field reached by walking the object-valued fields below the keys
\* given, in the order of the walk, with its dot-joined path
RECURSIVE Walk(_, _)
Walk(entries, keys) ==
    IF entries = <<>> THEN <<>>
    ELSE LET path  == Append(keys, Head(entries)[1])
             value == Head(entries)[2]
         IN  <<[path |-> DotJoined(path), value |-> value]>>
                 \o (IF value.t = "object" THEN Walk(value.entries, path) ELSE <<>>)
                 \o Walk(Tail(entries), keys)

RECURSIVE Occurrences(_)
Occurrences(logs) ==
    IF logs = <<>> THEN <<>>
    ELSE Walk(Head(logs).entries, <<>>) \o Occurrences(Tail(logs))

\* the values met at one path that are no objects, in input order
RECURSIVE ScalarsAt(_, _)
ScalarsAt(occ, path) ==
    IF occ = <<>> THEN <<>>
    ELSE (IF Head(occ).path = path /\ Head(occ).value.t # "object"
          THEN <<Head(occ).value>> ELSE <<>>) \o ScalarsAt(Tail(occ), path)

FirstAt(occ, path) ==
    occ[CHOOSE i \in 1..Len(occ) :
            occ[i].path = path /\ \A j \in 1..(i - 1) : occ[j].path # path]

\* C16: for any list of sample records analyzeFieldStructure yields one entry
\* per dot-joined key path reached by walking the object-valued (non-null,
\* non-array) fields; each entry has the type of the path's first occurrence,
\* at most 3 sample values, taken from its non-object occurrences in input
\* order, and isNested = true iff some occurrence was an object.  For the
\* records {"a": {"b": 1}} and {"a": {"b": 2, "c": 3}} the result is exactly
\* a (nested), a.b with samples [1, 2] and a.c with samples [3].
C16_FieldFlattening ==
    Analysed =>
        LET occ    == Occurrences(calc.arg)
            fields == calc.res.fields
        IN  /\ ~calc.res.threw
            /\ {fields[i].path : i \in 1..Len(fields)} = {occ[i].path : i \in 1..Len(occ)}
            /\ \A i, j \in 1..Len(fields) : fields[i].path = fields[j].path => i = j
            /\ \A i \in 1..Len(fields) :
                  LET scalars == ScalarsAt(occ, fields[i].path)
                  IN  /\ fields[i].type = TypeOf(FirstAt(occ, fields[i].path).value)
                      /\ Len(fields[i].sampleValues) <= 3
                      /\ fields[i].sampleValues =
                             SubSeq(scalars, 1, IF Len(scalars) < 3 THEN Len(scalars) ELSE 3)
                      /\ fields[i].isNested =
                             (\E k \in 1..Len(occ) :
                                 occ[k].path = fields[i].path /\ occ[k].value.t = "object")
            /\ calc.arg = <<RecordAB, RecordABC>> =>
                  fields = << [path |-> KeyA, type |-> "object",
                               sampleValues |-> <<>>, isNested |-> TRUE],
                              [path |-> KeyA \o <<".">> \o KeyB, type |-> "number",
                               sampleValues |-> <<JsonNumber(1), JsonNumber(2)>>,
                               isNested |-> FALSE],
                              [path |-> KeyA \o <<".">> \o KeyC, type |-> "number",
                               sampleValues |-> <<JsonNumber(3)>>, isNested |-> FALSE] >>

\* the one record {"constructor": 1} was analysed: the call threw and left
\* no entry for the path
C16_Witness ==
    /\ Analysed
    /\ calc.arg = <<JsonObject(<< <<KeyConstructor, JsonNumber(1)>> >>)>>
    /\ calc.res.threw
    /\ calc.res.fields = <<>>

\* the handler of the followed invocation has returned
Returned == inv.pc \in {"returned", "sent"}

\* what a handler may return: the success payload, or the error payload
\* with a message and the error flag
IsToolPayload(p) ==
    \/ p.kind = "success" /\ ~p.isError
    \/ p.kind = "error" /\ p.isError /\ p.text # ""

\* C13: every tool invocation ends in the success payload or in the error
\* payload (a message and the error flag); no failure of the backend call, of
\* the parsing of its answer or of the tool's own validation leaves the
\* handler, and the step in which the handler returns removes no session.
C13_EveryInvocationEnds ==
    [][/\ inv'.pc \in {"returned", "sent"} => IsToolPayload(inv'.payload)
       /\ inv.pc # "returned" /\ inv'.pc = "returned"
             => /\ DOMAIN activeSessions' = DOMAIN activeSessions
                /\ crashed' = crashed]_vars

\* the fetch of get_log_stats failed on the network: the error payload was
\* written on the stream of a session that is still in the table
C13_Witness ==
    /\ inv.pc = "sent"
    /\ inv.tool = "get_log_stats"
    /\ inv.answer.kind = "network"
    /\ inv.payload = ErrorPayload("Error: fetch failed")
    /\ sseOut[inv.conn] = "error"
    /\ \E sid \in DOMAIN activeSessions : activeSessions[sid].transport = inv.conn

\* sql, with lower its lower case, is SELECT * FROM ..., in either case and
\* with any white space
WildcardIn(sql, lower) ==
    /\ StartsWithAt(lower, 1, WordSelect)
    /\ \E b \in (Len(WordSelect) + 2)..Len(sql) :
           /\ sql[b] = "*"
           /\ SpacesBetween(sql, Len(WordSelect) + 1, b)
           /\ \E c \in (b + 2)..Len(sql) :
                  SpacesBetween(sql, b + 1, c) /\ StartsWithAt(lower, c, WordFrom)

WildcardProjection(sql) == WildcardIn(sql, ToLowerCase(sql))

\* somewhere in sql: SELECT, white space, some text, white space, FROM
SelectFromIn(sql, lower) ==
    \E i \in 1..Len(sql) :
        /\ StartsWithAt(lower, i, WordSelect)
        /\ IsSpace(sql[i + Len(WordSelect)])
        /\ \E c \in (i + Len(WordSelect) + 3)..Len(sql) :
               IsSpace(sql[c - 1]) /\ StartsWithAt(lower, c, WordFrom)

HasSelectFrom(sql) == SelectFromIn(sql, ToLowerCase(sql))

\* C14: query_logs_formatted, given a query whose projection is the wildcard
\* (SELECT * FROM src), returns the error payload with the error flag set and
\* issues no backend call; a query without a parsable SELECT ... FROM
\* likewise returns a validation error with no backend call.
C14_WildcardRejection ==
    /\ inv.tool = "query_logs_formatted"
    /\ inv.pc # "none"
    /\ WildcardProjection(inv.args.sql) \/ ~HasSelectFrom(inv.args.sql)
    => /\ Returned
       /\ inv.fetches = 0
       /\ inv.req = NoQuery
       /\ inv.answer = NoAnswer
       /\ inv.payload.kind = "error"
       /\ inv.payload.isError
       /\ inv.payload.text =
              IF HasSelectFrom(inv.args.sql)
              THEN "Error: SELECT * is not allowed"
              ELSE "Error: Invalid SQL: Could not parse SELECT clause"

\* SELECT * FROM t was rejected without a fetch, and the error payload was
\* written on the stream
C14_Witness ==
    /\ inv.pc = "sent"
    /\ inv.tool = "query_logs_formatted"
    /\ inv.args.sql = SqlSelectStar
    /\ inv.fetches = 0
    /\ inv.payload = ErrorPayload("Error: SELECT * is not allowed")
    /\ sseOut[inv.conn] = "error"

\* the documented maximum of each tool that takes a limit
DocumentedMaximum(tool) ==
    IF tool = "get_sample_logs" THEN 100
    ELSE IF tool = "explore_fields" THEN 50
    ELSE IF tool = "get_logs_by_time_range" THEN 1000
    ELSE 20

\* C17: for every requested limit, the LIMIT written into the backend query
\* never exceeds the tool's documented maximum: 100 for get_sample_logs (so
\* limit=9999 yields 100), 50 for explore_fields, 1000 for
\* get_logs_by_time_range and 20 for get_logs_from_time.
C17_LimitCapping ==
    /\ inv.fetches > 0
    /\ inv.tool \in {"get_sample_logs", "explore_fields", "get_logs_by_time_range",
                     "get_logs_from_time"}
    => /\ inv.req.limit.kind = "num"
       /\ inv.req.limit.val <= DocumentedMaximum(inv.tool)
       /\ inv.tool = "get_sample_logs" /\ inv.args.limit = LimitOf(9999)
             => inv.req.limit = LimitOf(100)

\* get_sample_logs was called with limit=9999 and its query went out with
\* LIMIT 100
C17_Witness ==
    /\ inv.pc = "awaiting"
    /\ inv.tool = "get_sample_logs"
    /\ inv.args.limit = LimitOf(9999)
    /\ inv.fetches = 1
    /\ inv.req.limit = LimitOf(100)

\* the backend elements of a source list: of a bare array, or of the sources
\* array of an object
BackendList(body) ==
    IF IsArray(body) THEN ItemsOf(body) ELSE ItemsOf(GetProperty(body, KeySources))

\* a bare array of objects, or an object with a sources array of objects
IsSourceList(body) ==
    /\ \/ IsArray(body)
       \/ body.t = "object" /\ IsArray(GetProperty(body, KeySources))
    /\ \A i \in 1..Len(BackendList(body)) : BackendList(body)[i].t = "object"

\* the value of a field of the output element: the string the backend
\* element has for it, the empty string if it has none
NormalisedField(element, key, value) ==
    IF \E j \in 1..Len(element.entries) :
           element.entries[j][1] = key /\ element.entries[j][2].t = "string"
    THEN \E j \in 1..Len(element.entries) :
           element.entries[j][1] = key /\ element.entries[j][2] = value
    ELSE value = JsonString(0)

\* formatted is {id, name, description} of the backend element
NormalisedSource(element, formatted) ==
    /\ formatted.t = "object"
    /\ [k \in 1..Len(formatted.entries) |-> formatted.entries[k][1]]
           = <<KeyId, KeyName, KeyDescription>>
    /\ \A k \in 1..Len(formatted.entries) :
           NormalisedField(element, formatted.entries[k][1], formatted.entries[k][2])

\* body is {sources: [...]} with the backend elements normalised, in order
NormalisedList(backend, body) ==
    /\ body.t = "object"
    /\ Len(body.entries) = 1
    /\ body.entries[1][1] = KeySources
    /\ IsArray(body.entries[1][2])
    /\ Len(ItemsOf(body.entries[1][2])) = Len(backend)
    /\ \A i \in 1..Len(backend) : NormalisedSource(backend[i], ItemsOf(body.entries[1][2])[i])

\* [{"id":"1","name":"app.logs"}]
ExampleSources ==
    JsonArray(<<JsonObject(<< <<KeyId, JsonString(1)>>, <<KeyName, JsonString(2)>> >>)>>)

\* {"sources":[{"id":"1","name":"app.logs","description":""}]}
ExampleOutput ==
    JsonObject(<< <<KeySources,
        JsonArray(<<JsonObject(<< <<KeyId, JsonString(1)>>,
                                  <<KeyName, JsonString(2)>>,
                                  <<KeyDescription, JsonString(0)>> >>)>>)>> >>)

\* C18: for every backend source list (a bare array, or an object with a
\* sources array), the output of list_sources is {sources: [...]} with one
\* {id, name, description} element per backend element in the same order,
\* each field missing from the backend element being the empty string; the
\* backend answer [{"id":"1","name":"app.logs"}] yields
\* {"sources":[{"id":"1","name":"app.logs","description":""}]}.
C18_ListSourcesNormalisation ==
    /\ inv.tool = "list_sources"
    /\ Returned
    /\ inv.answer.kind = "ok"
    /\ IsSourceList(inv.answer.body)
    => /\ inv.payload.kind = "success"
       /\ ~inv.payload.isError
       /\ NormalisedList(BackendList(inv.answer.body), inv.payload.body)
       /\ inv.answer.body = ExampleSources => inv.payload.body = ExampleOutput

\* the backend answered [{"id":"1","name":"app.logs"}] and the output with
\* the empty description was written on the stream
C18_Witness ==
    /\ inv.pc = "sent"
    /\ inv.tool = "list_sources"
    /\ inv.answer = BackendAnswer("ok", ExampleSources)
    /\ inv.payload = SuccessPayload(ExampleOutput)
    /\ sseOut[inv.conn] = "result"

-----------------------------------------------------------------------------
(* get_log_stats called with bounded time-range tokens *)

\* characters per time-range token
MaxToken == 3

\* digits, the two unit letters, a letter that is no unit, a space and a sign
TokenChars == {"2", "4", "h", "d", "b", " ", "-"}

RangeTokens(n) == UNION {[1..k -> TokenChars] : k \in 0..n}

StatsCalls(n) ==
    {CallOf("get_log_stats", ToolArgs(<<>>, "", NoLimit, <<>>, <<>>, FALSE, r)) :
        r \in RangeTokens(n)}

NextStats == NextCalls(TimedConns, StatsCalls(MaxToken), SomeAnswers)

SpecStats == Init /\ [][NextStats]_vars

\* the index at which the integer of a token starts: past white space and
\* one sign
IntegerStart(token, i) ==
    IF i <= Len(token) /\ token[i] = "-" THEN i + 1 ELSE i

\* the token starts with an integer
HasLeadingInteger(token) ==
    /\ IntegerStart(token, SpacesEnd(token, 1)) <= Len(token)
    /\ IsDigit(token[IntegerStart(token, SpacesEnd(token, 1))])

\* the value of the digits of token from index i on, negated after a sign
SignedDigits(token, i) ==
    (IF i > 1 /\ token[i - 1] = "-" THEN -1 ELSE 1)
        * NumeralValue(SubSeq(token, i, DigitsEnd(token, i) - 1))

LeadingInteger(token) == SignedDigits(token, IntegerStart(token, SpacesEnd(token, 1)))

\* the hour count of a token as the grammar states it; a token without a
\* leading integer is malformed and counts as 24 hours
StatedHours(token) ==
    IF ~HasLeadingInteger(token) THEN 24
    ELSE IF Includes(token, "h") THEN LeadingInteger(token)
    ELSE IF Includes(token, "d") THEN LeadingInteger(token) * 24
    ELSE 24

\* C21: for every time-range token of get_log_stats, a token that contains h
\* counts its leading integer as hours, otherwise one that contains d counts
\* its leading integer times 24, otherwise the count is 24; a malformed token
\* raises no validation error and the window of the query is 24 hours.
C21_TimeRangeGrammar ==
    inv.tool = "get_log_stats" /\ inv.pc # "none"
        => /\ inv.fetches = 1
           /\ inv.req.hours = LimitOf(StatedHours(inv.args.timeRange))

\* the token "h" went into the query as INTERVAL NaN HOUR
C21_Witness ==
    /\ inv.tool = "get_log_stats"
    /\ inv.pc = "awaiting"
    /\ inv.args.timeRange = <<"h">>
    /\ inv.fetches = 1
    /\ inv.req.hours = NaN

\* the tokens on which the stated grammar and the written window differ
\* have no leading integer and contain h or d
C21_MalformedOnly ==
    inv.tool = "get_log_stats" /\ inv.pc # "none"
        /\ inv.req.hours # LimitOf(StatedHours(inv.args.timeRange))
        => /\ inv.req.hours = NaN
           /\ ~HasLeadingInteger(inv.args.timeRange)
           /\ Includes(inv.args.timeRange, "h") \/ Includes(inv.args.timeRange, "d")

-----------------------------------------------------------------------------
(* The two time tools called with time expressions of every form and of none *)

\* "2 hours ago", "last 3 days", "now", "yesterday", "2024-01-15", "42",
\* "1700000000", and "banana", "13", "946684800", "", "ago"
TimeArguments ==
    { TwoHoursAgo, LastThreeDays, WordNow, WordYesterday, IsoDate, SmallInteger,
      <<"1", "7", "0", "0", "0", "0", "0", "0", "0", "0">>,
      WordBanana, <<"1", "3">>, UnixEpoch2000, <<>>, WordAgo }

TimeCalls ==
    {CallOf("get_logs_by_time_range", ToolArgs(<<>>, "", NoLimit, s, e, FALSE, <<>>)) :
        s \in TimeArguments, e \in TimeArguments}
      \cup {CallOf("get_logs_from_time", ToolArgs(<<>>, "", NoLimit, s, <<>>, FALSE, <<>>)) :
               s \in TimeArguments}

NextTimes == NextCalls(TimedConns, TimeCalls, SomeAnswers)

SpecTimes == Init /\ [][NextTimes]_vars

\* lower, the trimmed lower case of timeStr, is none of the relative forms,
\* the date parser rejects timeStr, and its number n is no Unix time
NoFormOf(timeStr, lower, n) ==
    /\ lower \notin {WordNow, WordCurrent, WordYesterday, WordToday}
    /\ AgoForms(lower) = {}
    /\ LastForms(lower) = {}
    /\ ~NewDate(timeStr).valid
    /\ ~(n # <<>> /\ NumeralGreater(n, UnixEpoch2000))

\* timeStr matches no form of the grammar
MatchesNoForm(timeStr) ==
    NoFormOf(timeStr, Trim(ToLowerCase(timeStr)), ParseFloat(timeStr))

\* the validation failure that names timeStr and the accepted forms
NamingError(timeStr) ==
    ErrorPayload("Error: Invalid time format: " \o TextOf(timeStr)
        \o ". Use ISO 8601, relative time (e.g., '1 hour ago'), or Unix timestamp.")

\* the followed invocation returned the validation failure for timeStr
\* without a backend call
RejectedFor(timeStr) ==
    /\ Returned
    /\ inv.fetches = 0
    /\ inv.req = NoQuery
    /\ inv.answer = NoAnswer
    /\ inv.payload = NamingError(timeStr)

\* C22: when get_logs_by_time_range or get_logs_from_time receives a start or
\* end time that matches no form of the grammar, the invocation returns the
\* error payload naming the offending input and issues no backend call; so it
\* does when the start time is valid and only the end time is invalid.
C22_UnparseableTime ==
    inv.pc # "none" =>
        /\ inv.tool \in {"get_logs_by_time_range", "get_logs_from_time"}
             /\ MatchesNoForm(inv.args.startTime)
             => RejectedFor(inv.args.startTime)
        /\ inv.tool = "get_logs_by_time_range"
             /\ ~MatchesNoForm(inv.args.startTime)
             /\ MatchesNoForm(inv.args.endTime)
             => RejectedFor(inv.args.endTime)

\* "2 hours ago" to "banana": the error names banana, and it was written on
\* the stream without a fetch
C22_Witness ==
    /\ inv.pc = "sent"
    /\ inv.tool = "get_logs_by_time_range"
    /\ inv.args.startTime = TwoHoursAgo
    /\ inv.args.endTime = WordBanana
    /\ inv.fetches = 0
    /\ inv.payload.text = "Error: Invalid time format: banana. Use ISO 8601, relative time (e.g., '1 hour ago'), or Unix timestamp."
    /\ sseOut[inv.conn] = "error"

\* C23: every tool invocation issues at most one backend request; after a
\* non-success status or a network error the invocation returns the error
\* payload without issuing a second request.
C23_NoRetry ==
    /\ inv.fetches <= 1
    /\ Returned /\ inv.answer.kind \in {"status", "network"}
          => /\ inv.fetches = 1
             /\ inv.payload.kind = "error"
             /\ inv.payload.isError

\* query_logs got a non-success status: one request, and the error payload
\* was written on the stream
C23_Witness ==
    /\ inv.pc = "sent"
    /\ inv.tool = "query_logs"
    /\ inv.answer.kind = "status"
    /\ inv.fetches = 1
    /\ inv.payload = ErrorPayload("Logflare Error: ")
    /\ sseOut[inv.conn] = "error"

\* C24: when forwarding a message to a live session's transport fails, the
\* request is answered 500 and the session is not removed: it stays in the
\* table with the idle timer that was reset when the message arrived; a step
\* that answers 500 and removes a session is the catch of a handshake.
C24_ForwardingFailure ==
    [][/\ \A p \in SessionIdParams :
              (p.kind = "string" /\ p.val \in DOMAIN activeSessions
                 /\ out'.route = "POST /messages"
                 /\ PostMessages(p, "ping", FALSE)) =>
                  /\ out'.status = 500
                  /\ out'.sessionId = p.val
                  /\ DOMAIN activeSessions' = DOMAIN activeSessions
                  /\ TimersOf(timers', p.val) = {activeSessions'[p.val].timeout}
                  /\ timers'[activeSessions'[p.val].timeout].remaining = SESSION_TIMEOUT_MIN
       /\ (out'.status = 500 /\ out' # out /\ DOMAIN activeSessions' # DOMAIN activeSessions) =>
              /\ out'.route = "GET /sse"
              /\ \E c \in Conns : CatchRuns(c) /\ out'.conn = c]_vars

\* the 500 of a failed forwarding, the session still in the table with its
\* timer armed for the full timeout
C24_Witness ==
    \E c \in Conns :
        /\ out = HttpOut("POST /messages", 500, SessionIdOf(c), 0, c)
        /\ SessionIdOf(c) \in DOMAIN activeSessions
        /\ activeSessions[SessionIdOf(c)].timeout \in DOMAIN timers
        /\ timers[activeSessions[SessionIdOf(c)].timeout].remaining = SESSION_TIMEOUT_MIN

\* the session of connection c was created and is no longer in the table
Removed(c) == st[c] # "idle" /\ SessionIdOf(c) \notin DOMAIN activeSessions

\* C25: if a session is removed (close or expiry) while one of its tool
\* invocations is suspended on a backend call, the removal leaves the
\* invocation suspended, the invocation carries the session's original
\* credentials and ends in its outcome without re-inserting the session or
\* arming a timer, and every message POSTed with that id after the removal
\* is answered 404 and starts nothing.
C25_RemovalDuringCall ==
    [][\A c \in Conns :
          /\ (SessionIdOf(c) \in DOMAIN activeSessions
                /\ SessionIdOf(c) \notin DOMAIN activeSessions') => calls' = calls
          /\ \A i \in Slots :
                 (InFlight(i) /\ calls[i].sid = SessionIdOf(c) /\ Removed(c)) =>
                     /\ calls[i].conn = c
                     /\ calls[i].req = BackendRequest(calls[i].tool,
                            [apiKey |-> ClientApiKey(c), sourceToken |-> ClientSourceToken(c)])
                     /\ calls'[i] # calls[i] =>
                            /\ calls'[i] = FreeCall
                            /\ activeSessions' = activeSessions
                            /\ timers' = timers
                            /\ closed[c] \/ sseOut'[c] \in {"result", "error"}
                     /\ \A a \in BackendAnswers : ENABLED ToolFinish(i, a)
          /\ \A b \in ToolNames :
                 (Removed(c) /\ out'.route = "POST /messages"
                    /\ PostMessages(Str(SessionIdOf(c)), b, TRUE)) =>
                     /\ out'.status = 404
                     /\ UNCHANGED <<activeSessions, timers, calls, sseOut>>]_vars

\* a backend call of an expired session is still suspended, and a message
\* with its id has just been answered 404
C25_Witness ==
    \E c \in Conns : \E i \in Slots :
        /\ InFlight(i)
        /\ calls[i].sid = SessionIdOf(c)
        /\ SessionIdOf(c) \in expired
        /\ Removed(c)
        /\ out = HttpOut("POST /messages", 404, SessionIdOf(c), 0, 0)


-----------------------------------------------------------------------------
(* session creation applied to tables that may already hold the drawn id *)

\* remaining minutes of the timers already armed in a drawn table
ArmedMinutes == {1, 15, SESSION_TIMEOUT_MIN}

\* the tables that requests S have built, request k under handle f[k]
TablesOf(S) ==
    {[sid \in {SessionIdOf(k) : k \in S} |->
         [server    |-> NewMcpServer(ConnOf(sid)),
          transport |-> NewSSEServerTransport(ConnOf(sid)),
          timeout   |-> f[ConnOf(sid)]]] :
       f \in {g \in [S -> Handles] : \A a, b \in S : a # b => g[a] # g[b]}}

\* the timers pending for a table, each with some of its time left
TimersFor(table) ==
    {[h \in {table[sid].timeout : sid \in DOMAIN table} |->
         [sid       |-> CHOOSE sid \in DOMAIN table : table[sid].timeout = h,
          remaining |-> r[h]]] :
       r \in [{table[sid].timeout : sid \in DOMAIN table} -> ArmedMinutes]}

\* request c creating its session under a drawn id, with handle h new
CreateInputs ==
    UNION {UNION {{[sessions |-> table, timers |-> tm, conn |-> c, sid |-> SessionIdOf(k), h |-> h] :
                      tm \in TimersFor(table), k \in Conns, h \in Handles \ {table[sid].timeout : sid \in DOMAIN table}} :
                  table \in TablesOf(S)} :
           c \in Conns, S \in SUBSET Conns}

InitCreate ==
    /\ InitSessions
    /\ inv = NoInvocation
    /\ calc \in {CalcOf("createSession", a) : a \in {b \in CreateInputs : SessionIdOf(b.conn) \notin DOMAIN b.sessions}}

(* lines 594-603 of GET /sse run on the drawn table *)
CreateEntry ==
    /\ calc.fn = "createSession"
    /\ ~calc.done
    /\ calc' = [calc EXCEPT !.done = TRUE,
                            !.res = CreateSession(calc.arg.sessions, calc.arg.timers,
                                                  calc.arg.conn, calc.arg.sid, calc.arg.h)]
    /\ UNCHANGED <<sessionVars, inv>>

NextCreate == CreateEntry

SpecCreate == InitCreate /\ [][NextCreate]_vars

Created == calc.fn = "createSession" /\ calc.done

\* C26 (as stated): creating a session under an id the table already has
\* fails and leaves the existing entry in place.
C26_ExistingIdRefused ==
    (Created /\ calc.arg.sid \in DOMAIN calc.arg.sessions) =>
        /\ calc.res.failed
        /\ calc.res.sessions = calc.arg.sessions

\* C26: session creation registers, under the transport's id, an entry with
\* the new server, the new transport and a new timer armed for the full
\* timeout; it never fails and changes no entry or timer of another id. Under
\* an id the table already has, the new entry replaces the existing one, whose
\* timer stays armed.
C26_SessionCreation ==
    Created =>
        /\ ~calc.res.failed
        /\ DOMAIN calc.res.sessions = DOMAIN calc.arg.sessions \cup {calc.arg.sid}
        /\ calc.res.sessions[calc.arg.sid] =
               [server    |-> NewMcpServer(calc.arg.conn),
                transport |-> NewSSEServerTransport(calc.arg.conn),
                timeout   |-> calc.arg.h]
        /\ calc.arg.h \notin DOMAIN calc.arg.timers
        /\ calc.res.timers[calc.arg.h] = [sid |-> calc.arg.sid, remaining |-> SESSION_TIMEOUT_MIN]
        /\ \A s \in DOMAIN calc.arg.sessions \ {calc.arg.sid} :
               calc.res.sessions[s] = calc.arg.sessions[s]
        /\ \A g \in DOMAIN calc.arg.timers : calc.res.timers[g] = calc.arg.timers[g]
        /\ calc.arg.sid \in DOMAIN calc.arg.sessions =>
               /\ calc.res.sessions[calc.arg.sid] # calc.arg.sessions[calc.arg.sid]
               /\ calc.arg.sessions[calc.arg.sid].timeout \in DOMAIN calc.res.timers

C26_Witness ==
    /\ Created
    /\ calc.arg.sid \in DOMAIN calc.arg.sessions
    /\ calc.arg.sessions[calc.arg.sid].transport # calc.arg.conn
    /\ calc.res.sessions[calc.arg.sid].transport = calc.arg.conn


-----------------------------------------------------------------------------
(* analyzeFieldStructure applied to a list and to a permutation of it *)

\* records per permuted list
MaxPermuted == 4

\* {"a": {"b": 1}}, {"a": {"b": 2, "c": 3}}, {"a": null, "d": "x"},
\* {"a.b": [1], "d": "y"} and {"constructor": 1}
PermutedRecords ==
    { RecordAB,
      RecordABC,
      JsonObject(<< <<KeyA, JsonNull>>, <<KeyD, JsonString(1)>> >>),
      JsonObject(<< <<KeyA \o <<".">> \o KeyB, JsonArray(<<JsonNumber(1)>>)>>, <<KeyD, JsonString(2)>> >>),
      JsonObject(<< <<KeyConstructor, JsonNumber(1)>> >>) }

OrdersOf(k) == {p \in [1..k -> 1..k] : \A i, j \in 1..k : p[i] = p[j] => i = j}

Permuted(logs, p) == [i \in 1..Len(logs) |-> logs[p[i]]]

PermutedInputs(n) ==
    UNION {{[logs |-> logs, perm |-> p] : logs \in [1..k -> PermutedRecords], p \in OrdersOf(k)} :
           k \in 0..n}

InitOrder ==
    /\ InitSessions
    /\ inv = NoInvocation
    /\ calc \in {CalcOf("analyzeFieldStructure, permuted", a) : a \in PermutedInputs(MaxPermuted)}

(* analyzeFieldStructure(logs) and analyzeFieldStructure(permuted logs) return or throw *)
AnalyzePermuted ==
    /\ calc.fn = "analyzeFieldStructure, permuted"
    /\ ~calc.done
    /\ calc' = [calc EXCEPT !.done = TRUE,
                            !.res = [given    |-> AnalyzeFieldStructure(calc.arg.logs),
                                     permuted |-> AnalyzeFieldStructure(Permuted(calc.arg.logs, calc.arg.perm))]]
    /\ UNCHANGED <<sessionVars, inv>>

NextOrder == AnalyzePermuted

SpecOrder == InitOrder /\ [][NextOrder]_vars

Compared == calc.fn = "analyzeFieldStructure, permuted" /\ calc.done

PathsOf(fields) == {fields[i].path : i \in 1..Len(fields)}

\* the sample values recorded for a path
SamplesAt(fields, path) ==
    fields[CHOOSE i \in 1..Len(fields) : fields[i].path = path].sampleValues

Members(values) == {values[i] : i \in 1..Len(values)}

\* both analyses returned and agree on the paths
SamePaths(given, permuted) ==
    /\ given.threw = permuted.threw
    /\ ~given.threw => PathsOf(given.fields) = PathsOf(permuted.fields)

\* C27 (as stated): for any list of sample records and any permutation of it,
\* analyzeFieldStructure yields the same set of paths and, for each path, the
\* same membership of sampleValues, of at most 3 values.
C27_OrderIndependence ==
    Compared =>
        /\ SamePaths(calc.res.given, calc.res.permuted)
        /\ ~calc.res.given.threw =>
               \A path \in PathsOf(calc.res.given.fields) :
                   /\ Len(SamplesAt(calc.res.given.fields, path)) <= 3
                   /\ Members(SamplesAt(calc.res.given.fields, path))
                          = Members(SamplesAt(calc.res.permuted.fields, path))

\* C27: for any list of sample records and any permutation of it,
\* analyzeFieldStructure fails for both or yields the same set of paths for
\* both; each path has the same number of sampleValues, at most 3, all of them
\* values met at the path; and the membership of sampleValues is the same
\* whenever the path has at most 3 non-object occurrences in the list.  With
\* more occurrences the first three in input order are kept, so the
\* membership follows the order.
C27_OrderIndependenceWithinCap ==
    Compared =>
        /\ SamePaths(calc.res.given, calc.res.permuted)
        /\ ~calc.res.given.threw =>
               \A path \in PathsOf(calc.res.given.fields) :
                   /\ Len(SamplesAt(calc.res.given.fields, path)) <= 3
                   /\ Len(SamplesAt(calc.res.given.fields, path))
                          = Len(SamplesAt(calc.res.permuted.fields, path))
                   /\ Members(SamplesAt(calc.res.permuted.fields, path))
                          \subseteq Members(ScalarsAt(Occurrences(calc.arg.logs), path))
                   /\ SamplesAt(calc.res.permuted.fields, path)
                          = SubSeq(ScalarsAt(Occurrences(Permuted(calc.arg.logs, calc.arg.perm)), path),
                                   1, Len(SamplesAt(calc.res.permuted.fields, path)))
                   /\ Len(ScalarsAt(Occurrences(calc.arg.logs), path)) <= 3 =>
                          Members(SamplesAt(calc.res.given.fields, path))
                              = Members(SamplesAt(calc.res.permuted.fields, path))

\* {"a": {"b": 1}} and {"a": {"b": 2, "c": 3}} were analysed in both orders:
\* the paths agree and a.b has the samples [1, 2] in one and [2, 1] in the other
C27_Witness ==
    /\ Compared
    /\ calc.arg.logs = <<RecordAB, RecordABC>>
    /\ calc.arg.perm = <<2, 1>>
    /\ ~calc.res.given.threw
    /\ PathsOf(calc.res.given.fields) = PathsOf(calc.res.permuted.fields)
    /\ SamplesAt(calc.res.given.fields, KeyA \o <<".">> \o KeyB) = <<JsonNumber(1), JsonNumber(2)>>
    /\ SamplesAt(calc.res.permuted.fields, KeyA \o <<".">> \o KeyB) = <<JsonNumber(2), JsonNumber(1)>>


-----------------------------------------------------------------------------
(* independence of the sessions *)

\* a step of one of the handlers and callbacks that belong to connection a:
\* its GET /sse, the outcome of its handshake, its close event, the callback
\* of a timer armed for its session, a message carrying its session id
OperationOn(a) ==
    \/ \E k \in HeaderValues(ClientApiKey(a)) :
           \E t \in HeaderValues(ClientSourceToken(a)) : GetSse(a, k, t)
    \/ ConnectOk(a)
    \/ ConnectFail(a)
    \/ ResClose(a)
    \/ \E h \in DOMAIN timers : timers[h].sid = SessionIdOf(a) /\ TimerFire(h)
    \/ \E ok \in BOOLEAN : PostMessages(Str(SessionIdOf(a)), "ping", ok)

\* what the program holds for the session of connection b: its table entry
\* (server, transport, timer handle), the timers pending for its id with the
\* time they have left, and the credentials its server closed over
SessionView(b) ==
    [entry   |-> IF SessionIdOf(b) \in DOMAIN activeSessions
                 THEN <<activeSessions[SessionIdOf(b)]>> ELSE <<>>,
     pending |-> {<<h, timers[h].remaining>> : h \in TimersOf(timers, SessionIdOf(b))},
     creds   |-> closure[b],
     stage   |-> st[b]]

\* C28: every operation on a session A (creation, message arrival with timer
\* reset, expiry, close, handshake outcome) leaves the table entry, the
\* transport, the server instance and the pending timer deadline of every
\* other session B unchanged.
C28_CrossSessionIndependence ==
    [][\A a, b \in Conns : (a # b /\ OperationOn(a)) => SessionView(b)' = SessionView(b)]_vars

\* a message for the session of connection 1 re-armed its timer while the
\* session of connection 2 is in the table with its timer due, as before
C28_Witness ==
    /\ out = HttpOut("POST /messages", 202, SessionIdOf(1), 0, NewSSEServerTransport(1))
    /\ DOMAIN activeSessions = {SessionIdOf(1), SessionIdOf(2)}
    /\ timers[activeSessions[SessionIdOf(1)].timeout].remaining = SESSION_TIMEOUT_MIN
    /\ timers[activeSessions[SessionIdOf(2)].timeout].remaining = 0
    /\ activeSessions[SessionIdOf(2)].server = NewMcpServer(2)


\* C30: in every reachable state each session in the table has exactly one
\* pending idle timer, the one stored in its entry, and no timer is pending
\* for an id that is absent from the table: no removal and no message leaves
\* an orphan timer that could later delete a session.
C30_TimerTableInvariant ==
    /\ \A sid \in DOMAIN activeSessions :
           TimersOf(timers, sid) = {activeSessions[sid].timeout}
    /\ \A h \in DOMAIN timers : timers[h].sid \in DOMAIN activeSessions

\* a message re-armed the timer of a session whose old timer was due: the
\* due timer is gone and the session's only timer is the new one
C30_Witness ==
    \E c \in Conns :
        /\ out = HttpOut("POST /messages", 202, SessionIdOf(c), 0, NewSSEServerTransport(c))
        /\ SessionIdOf(c) \in DOMAIN activeSessions
        /\ TimersOf(timers, SessionIdOf(c)) = {activeSessions[SessionIdOf(c)].timeout}
        /\ timers[activeSessions[SessionIdOf(c)].timeout].remaining = SESSION_TIMEOUT_MIN
        /\ idleFor[c] = 0
        /\ \E d \in Conns \ {c} : st[d] # "idle" /\ SessionIdOf(d) \notin DOMAIN activeSessions
                                     /\ TimersOf(timers, SessionIdOf(d)) = {}


-----------------------------------------------------------------------------
(* The session lifecycle with time that keeps passing and an event loop    *)
(* that runs every timer callback that stays due.                          *)
Fairness ==
    /\ WF_vars(Tick(SESSION_TIMEOUT_MIN))
    /\ \A h \in Handles : WF_vars(TimerFire(h))

SpecLive == Init /\ [][Next]_vars /\ Fairness

InTable(c) == SessionIdOf(c) \in DOMAIN activeSessions

\* a message that is accepted for the session of connection c
MessageFor(c) ==
    /\ InTable(c)
    /\ \E ok \in BOOLEAN : PostMessages(Str(SessionIdOf(c)), "ping", ok)

\* C29: every session that is created and from some point on receives no
\* further messages is eventually absent from the session table for good
\* (by idle expiry, connection close or handshake failure), given that pending
\* timers eventually fire; no session stays in the table forever without
\* message activity.
C29_EventualRemoval ==
    \A c \in Conns : <>[][~MessageFor(c)]_vars => <>[](~InTable(c))

\* a session that was opened and got no message for the whole timeout has
\* expired: its stream is still open and its id is absent from the table
C29_Witness ==
    \E c \in Conns :
        /\ st[c] = "open"
        /\ ~closed[c]
        /\ idleFor[c] >= SESSION_TIMEOUT_MIN
        /\ SessionIdOf(c) \in expired
        /\ ~InTable(c)
        /\ TimersOf(timers, SessionIdOf(c)) = {}

====
